---- MODULE Spec2Model ----
(***************************************************************************)
(* ZephyrOS Executor: the agent runtime.                                   *)
(*                                                                         *)
(*   executor.py        TaskExecutor: poller, bounded worker pool, stats   *)
(*   zmemory_client.py  ZMemoryClient: the orchestrator's HTTP surface     *)
(*   mock_zmemory_server.py  the orchestrator the agent is tested against  *)
(*   cli.py             ExecutorCLI: SIGINT -> stop() -> exit              *)
(*   auth_manager.py    AuthTokenManager.get_valid_token                   *)
(*   process_monitor.py ProcessMonitor: per-PID monitor loop               *)
(*   terminal_manager.py  TerminalSessionManager: the session table        *)
(*   claude_code_executor.py  ClaudeCodeExecutor: one run in a workspace   *)
(*                                                                         *)
(* Every thread of the program is a process of the model; a statement of   *)
(* a thread that reads and then writes shared data without a lock is two   *)
(* steps. A request to the orchestrator is one step: a handler of the      *)
(* server tests and updates its task table in adjacent statements, with no *)
(* call or blocking operation between them.                                *)
(***************************************************************************)
EXTENDS Integers, Sequences, FiniteSets, TLC

\* ------------------------------------------------------------------ bounds
\* Task ids the orchestrator can hand out in one run of the model.
NumTasks == 2
\* Tasks submitted when two agents compete for them.
RaceTasks == 1
\* Last minute of the clock of the authentication model.
MaxClock == 8
\* Minutes a token issued by the identity provider lives.
TokenLifetime == 6
\* Times attach_to_process is called for one PID.
MaxAttach == 2
\* Largest worker pool of a modelled agent (max_concurrent_tasks is 1..MaxWorkers).
MaxWorkers == 2

\* Runs of the process-exec back-end (one session each).
NumRuns == 1

\* Checks of the monitoring loop before max_execution_time is over.
MaxPolls == 2

\* Calls of terminate_session / cleanup_session from outside the back-end.
MaxApiCalls == 1

\* Calls of the orchestrator client in a run of the client alone.
MaxClientCalls == 3

\* Entries under output/ when the artifacts are collected.
MaxFiles == 2

\* Threads a TaskExecutor that is started and stopped again can have alive.
MaxThreads == 4

\* Characters the monitored process writes to its output log.
MaxChars == 2

\* Sessions the session manager can hold at a time.
MaxSessions == 2

\* Calls of list_active_sessions that are begun.
MaxLists == 2

\* ------------------------------------------------------- program constants
\* mock_zmemory_server.py: no new task is created once 10 exist.
TaskCap == 10

\* auth_manager.py: a cached token is used until 5 minutes before its expiry.
ExpiryMargin == 5

\* claude_code_executor.py: files of this size or more are listed without
\* their content.
InlineLimit == 100000

Agents == {"a1", "a2"}
TaskIds == 1..NumTasks
Workers == 1..MaxWorkers
NoTask == 0

\* What a call of a ZMemoryClient method can do: the request is answered
\* ("ok": it reached the server, whose handler decides the status code), a
\* requests.RequestException is caught and the method returns False/[]
\* ("lost": the request never reached the server), or any other exception
\* leaves the method ("raise").
Outcomes == {"ok", "lost", "raise"}

\* What an execution back-end can do: return success=True, return
\* success=False, or raise (e.g. _execute_in_terminal without an executor).
BackendResults == {"success", "failure", "raise"}

VARIABLES
    \* --- orchestrator (mock_zmemory_server.py) ---
    tasks,           \* task id -> status ("none" = not created yet)
    submitLimit,     \* how many tasks are submitted in this run
    faults,          \* whether requests to the orchestrator can fail in this run
    taskAgent,       \* task id -> agent whose accept the server recorded
    \* --- TaskExecutor, one per agent ---
    max_concurrent_tasks, \* config.max_concurrent_tasks
    running,         \* self.running
    task_queue,      \* self.task_queue
    active_tasks,    \* self.active_tasks (its key set)
    stats,           \* self.stats
    mainpc,          \* the CLI main thread
    pollpc,          \* the polling thread
    polllist,        \* descriptors of the current tick still to be looked at
    wpc,             \* worker threads
    wtask,           \* the task a worker holds
    wtmp,            \* the value a worker read for a += in progress
    wraised,         \* whether a call of the task a worker executes has raised
    wmode,           \* the execution_mode the worker has just read from its task
                     \* and the back-end it has just run (NoMode at any other
                     \* statement)
    execution_mode,  \* config.execution_mode
    \* --- history of what each agent did ---
    accepted,        \* task ids for which accept_task returned True
    calls,           \* reporting calls issued per task: status/complete/fail
    inflightAtStop,  \* tasks a worker held when stop() set running=False
    queuedAtStop,    \* tasks on task_queue when stop() set running=False
    probes           \* what the two connection tests of start() returned

VARIABLES
    \* --- AuthTokenManager and what it talks to ---
    now,             \* the clock, in minutes
    cached_token,    \* self.cached_token
    token_expiry,    \* self.token_expiry
    cacheFile,       \* the document at TOKEN_CACHE_FILE
    sbSession,       \* the session the Supabase client holds
    idpUp,           \* whether the identity provider answers
    refreshUp,       \* whether the identity provider grants a refresh
    lastReturn,      \* what the last get_valid_token returned, and when
    quiet            \* the get_auth_headers calls made in a row since anything
                     \* else happened (counted to 2), and whether the first
                     \* of them changed the memory or the cache file

VARIABLES
    \* --- ProcessMonitor ---
    procAlive,       \* whether the process of a PID is alive (os.kill(pid, 0))
    monitored,       \* self.monitored_processes: PID -> its ProcessMetrics object
    metrics,         \* the ProcessMetrics objects created for a PID, by attach
    lpc,             \* the monitor thread started by the k-th attach of a PID
    lref,            \* `metrics`, the object that thread fetched
    sigpc,           \* a caller inside handle_timeout / handle_kill
    sigref,          \* the object that caller fetched
    callbacks,       \* self._callbacks: whether the PID has a subscriber
    delivered        \* 'completed' events handed to the subscriber of a PID

VARIABLES
    \* --- TerminalSessionManager ---
    active_sessions, \* self.active_sessions (its key set)
    skind,           \* session -> what the manager holds of its process
    palive,          \* session -> whether its process is alive
    returncode,      \* session -> exit status of its process, once ended
    signals,         \* session -> signals delivered to its process
    terminate_calls, \* session -> calls of terminate_session for it
    lastcall,        \* the terminate/cleanup call served last
    apicalls,        \* calls made from outside the back-end
    \* --- ClaudeCodeExecutor ---
    auto_cleanup,    \* self.auto_cleanup
    xrun,            \* the run of execute_task_in_terminal in progress
    xpc,             \* its position
    xworkspace,      \* whether its local `workspace` is set
    xsession,        \* its local `session`
    polls,           \* turns of the monitoring loop so far
    timedout,        \* whether monitor_execution returned False
    workspaces,      \* run -> its workspace directory on disk
    xresult,         \* run -> the result dict returned
    xreport          \* run -> what the executor core reported

termVars == <<active_sessions, skind, palive, returncode, signals, terminate_calls,
              lastcall, apicalls, auto_cleanup, xrun, xpc, xworkspace, xsession,
              polls, timedout, workspaces, xresult, xreport>>

VARIABLES
    \* --- ZMemoryClient, called on its own ---
    creturn,         \* the last call: operation, response, what it returned
    ccalls,          \* calls made so far
    \* --- ClaudeCodeExecutor.collect_artifacts ---
    outputFiles,     \* path under output/ -> the entry there
    artifacts,       \* the list collect_artifacts returned
    collected        \* whether collect_artifacts has run

VARIABLES
    \* --- TaskExecutor, started and stopped any number of times ---
    threads,         \* the daemon threads start() created: loop and position
    startResult      \* what the last start() did

lifeVars == <<threads, startResult>>

VARIABLES
    \* --- the cache file, written by one process while another reads it ---
    saving,          \* the _save_session in progress: position, document, file before
    lastLoad         \* what the last _load_cached_session read, and during what

cacheVars == <<saving, lastLoad>>

VARIABLES
    \* --- ProcessMonitor: one monitor loop and the output log it follows ---
    output_file,       \* the log: the bytes each character written takes
    tail_alive,        \* the monitored process has not exited
    tail_entry,        \* the PID has an entry in monitored_processes
    tail_callbacks,    \* self._callbacks[pid], in registration order
    tail_state,        \* metrics.state of the PID's ProcessMetrics
    tail_pc,           \* position of the monitor thread
    last_output_size,  \* local of _monitor_loop
    current_size,      \* local of _monitor_loop
    pending,           \* the event _trigger_callbacks is delivering
    events             \* the calls of subscriber callbacks, in order

tailVars == <<output_file, tail_alive, tail_entry, tail_callbacks, tail_state, tail_pc,
              last_output_size, current_size, pending, events>>

VARIABLES
    \* --- TerminalSessionManager: its lock and the threads that take it ---
    lk_holder,       \* the thread that holds self._lock, or "none"
    lk_table,        \* the keys of self.active_sessions
    lk_pc,           \* thread -> its position
    lk_todo,         \* sessions the comprehension of list_active_sessions has left
    lk_op,           \* the call of the other thread: operation, session, lock section
    lk_returned      \* calls of list_active_sessions that have returned

lockVars == <<lk_holder, lk_table, lk_pc, lk_todo, lk_op, lk_returned>>

clientVars == <<creturn, ccalls>>

artVars == <<outputFiles, artifacts, collected>>

monVars == <<procAlive, monitored, metrics, lpc, lref, sigpc, sigref, callbacks, delivered>>

authVars == <<now, cached_token, token_expiry, cacheFile, sbSession, idpUp,
              refreshUp, lastReturn, quiet>>

execVars == <<tasks, submitLimit, faults, taskAgent, max_concurrent_tasks, running, task_queue,
              active_tasks, stats, mainpc, pollpc, polllist, wpc, wtask, wtmp,
              wraised, wmode, execution_mode, accepted, calls, inflightAtStop, queuedAtStop, probes>>

vars == <<execVars, authVars, monVars, termVars, clientVars, artVars, lifeVars, cacheVars,
          tailVars, lockVars>>

nonExecVars == <<authVars, monVars, termVars, clientVars, artVars, lifeVars, cacheVars, tailVars, lockVars>>
nonAuthVars == <<execVars, monVars, termVars, clientVars, artVars, lifeVars, cacheVars, tailVars, lockVars>>
nonMonVars == <<execVars, authVars, termVars, clientVars, artVars, lifeVars, cacheVars, tailVars, lockVars>>
nonTermVars == <<execVars, authVars, monVars, clientVars, artVars, lifeVars, cacheVars, tailVars, lockVars>>
nonClientVars == <<execVars, authVars, monVars, termVars, artVars, lifeVars, cacheVars, tailVars, lockVars>>
nonArtVars == <<execVars, authVars, monVars, termVars, clientVars, lifeVars, cacheVars, tailVars, lockVars>>
nonCacheVars == <<execVars, now, cached_token, token_expiry, sbSession, idpUp, refreshUp,
                  lastReturn, quiet, monVars, termVars, clientVars, artVars, lifeVars,
                  tailVars, lockVars>>
nonLifeVars == <<tasks, submitLimit, faults, taskAgent, task_queue, active_tasks, stats,
                 mainpc, pollpc, polllist, wpc, wtask, wtmp, wraised, wmode,
                 execution_mode, accepted, calls, inflightAtStop, queuedAtStop,
                 probes, authVars, monVars, termVars, clientVars, artVars, cacheVars,
                 tailVars, lockVars>>
nonTailVars == <<execVars, authVars, monVars, termVars, clientVars, artVars, lifeVars,
                 cacheVars, lockVars>>

nonLockVars == <<execVars, authVars, monVars, termVars, clientVars, artVars, lifeVars,
                 cacheVars, tailVars>>

\* ------------------------------------------------------------------ helpers
\* The outcomes the environment of this run produces.
CallOutcomes == IF faults THEN Outcomes ELSE {"ok"}

\* What a connection probe of start() can answer in this run.
ProbeOutcomes == IF faults THEN BOOLEAN ELSE {TRUE}

\* The execution_mode a task descriptor can carry ("none": the key is absent).
Overrides == {"none", "api", "terminal"}

\* The worker has not selected a back-end for its task.
NoMode == [override |-> "none", ran |-> "none"]

NoCalls == [status |-> 0, complete |-> 0, fail |-> 0]

\* start() has not run its connection tests.
NoProbes == [zmemory |-> "not_run", claude |-> "not_run"]

\* The process of agent a has not exited: its threads can still take steps.
Alive(a) == mainpc[a] \in {"running", "grace"}

\* A start() that launches a worker for every slot, whatever the setting.
PoolOfAll(a) == Workers

\* for i in range(self.config.max_concurrent_tasks): the workers of agent a.
PoolOf(a) == 1..max_concurrent_tasks[a]

\* Tasks held by a worker of a (dequeued, _execute_task not yet left).
Held(a) == {wtask[a][w] : w \in Workers} \ {NoTask}

\* Pending descriptors in the order the server lists them (creation order).
RECURSIVE PendingFrom(_)
PendingFrom(t) ==
    IF t > NumTasks THEN <<>>
    ELSE (IF tasks[t] = "pending" THEN <<t>> ELSE <<>>) \o PendingFrom(t + 1)

\* ------------------------------------------------- orchestrator handlers
\* POST /tasks: a task appears at the orchestrator (ids in creation order).
SubmitTask ==
    /\ Cardinality({t \in TaskIds : tasks[t] # "none"}) < TaskCap
    /\ Cardinality({t \in TaskIds : tasks[t] # "none"}) < submitLimit
    /\ \E t \in TaskIds :
        /\ tasks[t] = "none"
        /\ \A u \in TaskIds : u < t => tasks[u] # "none"
        /\ tasks' = [tasks EXCEPT ![t] = "pending"]
    /\ UNCHANGED <<submitLimit, faults, taskAgent, max_concurrent_tasks, running, task_queue,
                   active_tasks, stats, mainpc, pollpc, polllist, wpc, wtask,
                   wtmp, accepted, calls, inflightAtStop, queuedAtStop, probes, wraised, wmode, execution_mode, nonExecVars>>

\* GET /tasks/pending
SrvPending == PendingFrom(1)

\* A handler that answers 200 for every task it knows, leased or not.
SrvAcceptAny(t) == tasks[t] # "none"

\* POST /tasks/<id>/accept: 404 for an unknown id, 400 unless the task is
\* pending. TRUE when the handler records the lease and answers 200.
SrvAcceptCheck(t) == tasks[t] = "pending"

\* POST /tasks/<id>/accept: the lease as the handler records it.
SrvAcceptSet(t, a) == [tasks EXCEPT ![t] = "accepted"]

\* PATCH /tasks/<id>/status
SrvUpdateStatus(t, status) ==
    IF tasks[t] = "none" THEN tasks ELSE [tasks EXCEPT ![t] = status]

\* POST /tasks/<id>/complete
SrvComplete(t) ==
    IF tasks[t] = "none" THEN tasks ELSE [tasks EXCEPT ![t] = "completed"]

\* POST /tasks/<id>/fail
SrvFail(t) ==
    IF tasks[t] = "none" THEN tasks ELSE [tasks EXCEPT ![t] = "failed"]

\* ------------------------------------------------------------ construction
\* TaskExecutor.__init__ for every agent; `started` are the agents whose CLI
\* is run, `sizes` the values of max_concurrent_tasks tried, `limit` the
\* number of tasks submitted to the orchestrator, `faulty` whether requests
\* to the orchestrator can fail.
InitExecutor(started, sizes, limit, faulty) ==
    /\ tasks = [t \in TaskIds |-> "none"]
    /\ submitLimit = limit
    /\ faults = faulty
    /\ taskAgent = [t \in TaskIds |-> "none"]
    /\ \E n \in sizes : max_concurrent_tasks = [a \in Agents |-> n]
    /\ running = [a \in Agents |-> FALSE]
    /\ task_queue = [a \in Agents |-> <<>>]
    /\ active_tasks = [a \in Agents |-> {}]
    /\ stats = [a \in Agents |-> [total_tasks |-> 0, completed |-> 0, failed |-> 0]]
    /\ mainpc = [a \in Agents |-> IF a \in started THEN "init" ELSE "absent"]
    /\ pollpc = [a \in Agents |-> "off"]
    /\ polllist = [a \in Agents |-> <<>>]
    /\ wpc = [a \in Agents |-> [w \in Workers |-> "off"]]
    /\ wtask = [a \in Agents |-> [w \in Workers |-> NoTask]]
    /\ wtmp = [a \in Agents |-> [w \in Workers |-> 0]]
    /\ wraised = [a \in Agents |-> [w \in Workers |-> FALSE]]
    /\ wmode = [a \in Agents |-> [w \in Workers |-> NoMode]]
    /\ execution_mode = [a \in Agents |-> "api"]
    /\ accepted = [a \in Agents |-> {}]
    /\ calls = [a \in Agents |-> [t \in TaskIds |-> NoCalls]]
    /\ inflightAtStop = [a \in Agents |-> {}]
    /\ queuedAtStop = [a \in Agents |-> {}]
    /\ probes = [a \in Agents |-> NoProbes]

\* ------------------------------------------------------ main thread (CLI)
\* A start() that goes on when one of the two probes succeeded.
TestEitherConnection(zmemory_ok, claude_ok) == zmemory_ok \/ claude_ok

\* _test_connections: the orchestrator's health probe, then, only if it
\* succeeded, the probe of the model API; True when both returned True.
\* Both test_connection methods turn every exception into False.
TestConnections(zmemory_ok, claude_ok) == zmemory_ok /\ claude_ok

\* What start() has learnt from the probes: the second is not run when the
\* first failed.
ProbeRecord(zmemory_ok, claude_ok) ==
    [zmemory |-> IF zmemory_ok THEN "ok" ELSE "failed",
     claude |-> IF ~zmemory_ok THEN "not_run"
                ELSE IF claude_ok THEN "ok" ELSE "failed"]

\* TaskExecutor.start: probe the orchestrator and the model API; on failure
\* raise RuntimeError (the CLI returns 1); on success set running and launch
\* one poller and max_concurrent_tasks workers.
Start(a) ==
    /\ mainpc[a] = "init"
    /\ ~running[a]
    /\ \E zmemory_ok, claude_ok \in ProbeOutcomes :
        /\ probes' = [probes EXCEPT ![a] = ProbeRecord(zmemory_ok, claude_ok)]
        /\ IF TestConnections(zmemory_ok, claude_ok)
           THEN /\ running' = [running EXCEPT ![a] = TRUE]
                /\ pollpc' = [pollpc EXCEPT ![a] = "loop"]
                /\ wpc' = [wpc EXCEPT ![a] =
                            [w \in Workers |-> IF w \in PoolOf(a) THEN "check" ELSE "off"]]
                /\ mainpc' = [mainpc EXCEPT ![a] = "running"]
           ELSE /\ mainpc' = [mainpc EXCEPT ![a] = "failed"]
                /\ UNCHANGED <<running, pollpc, wpc>>
    /\ UNCHANGED <<tasks, submitLimit, faults, taskAgent, max_concurrent_tasks, task_queue,
                   active_tasks, stats, polllist, wtask, wtmp, accepted, calls,
                   inflightAtStop, queuedAtStop, wraised, wmode, execution_mode, nonExecVars>>

\* SIGINT -> ExecutorCLI.handle_sigint -> TaskExecutor.stop: running=False,
\* then the one-second sleep begins.
Stop(a) ==
    /\ mainpc[a] = "running"
    /\ running' = [running EXCEPT ![a] = FALSE]
    /\ mainpc' = [mainpc EXCEPT ![a] = "grace"]
    /\ inflightAtStop' = [inflightAtStop EXCEPT ![a] = Held(a)]
    /\ queuedAtStop' = [queuedAtStop EXCEPT ![a] =
                          {task_queue[a][i] : i \in 1..Len(task_queue[a])}]
    /\ UNCHANGED <<tasks, submitLimit, faults, taskAgent, max_concurrent_tasks, task_queue,
                   active_tasks, stats, pollpc, polllist, wpc, wtask, wtmp,
                   accepted, calls, probes, wraised, wmode, execution_mode, nonExecVars>>

\* The sleep of stop() is over and handle_sigint calls sys.exit(0): the
\* poller and the workers are daemon threads and end with the process, and
\* what they held in local variables ends with them.
Exit(a) ==
    /\ mainpc[a] = "grace"
    /\ mainpc' = [mainpc EXCEPT ![a] = "exited"]
    /\ polllist' = [polllist EXCEPT ![a] = <<>>]
    /\ wtmp' = [wtmp EXCEPT ![a] = [w \in Workers |-> 0]]
    /\ wraised' = [wraised EXCEPT ![a] = [w \in Workers |-> FALSE]]
    /\ wmode' = [wmode EXCEPT ![a] = [w \in Workers |-> NoMode]]
    /\ pollpc' = [pollpc EXCEPT ![a] = "done"]
    /\ wpc' = [wpc EXCEPT ![a] =
                [w \in Workers |-> IF w \in PoolOf(a) THEN "exit" ELSE "off"]]
    /\ UNCHANGED <<tasks, submitLimit, faults, taskAgent, max_concurrent_tasks, running, task_queue,
                   active_tasks, stats, wtask,
                   accepted, calls, inflightAtStop, queuedAtStop, probes, execution_mode, nonExecVars>>

\* ------------------------------------------------ polling thread (poller)
\* `while self.running:` of _polling_loop.
Poll_Loop(a) ==
    /\ Alive(a) /\ pollpc[a] = "loop"
    /\ pollpc' = [pollpc EXCEPT ![a] = IF running[a] THEN "fetch" ELSE "done"]
    /\ UNCHANGED <<tasks, submitLimit, faults, taskAgent, max_concurrent_tasks, running, task_queue,
                   active_tasks, stats, mainpc, polllist, wpc, wtask, wtmp,
                   accepted, calls, inflightAtStop, queuedAtStop, probes, wraised, wmode, execution_mode, nonExecVars>>

\* tasks = self.zmemory.get_pending_tasks(agent_name): the descriptors the
\* server lists, [] when the request fails; any other exception goes to the
\* loop's handler (sleep 5 s, next tick).
Poll_Fetch(a) ==
    /\ Alive(a) /\ pollpc[a] = "fetch"
    /\ \E o \in CallOutcomes :
        LET got == IF o = "ok" THEN SrvPending ELSE <<>> IN
        /\ polllist' = [polllist EXCEPT ![a] = got]
        /\ pollpc' = [pollpc EXCEPT ![a] =
                        IF o = "raise" THEN "sleep"
                        ELSE IF got = <<>> THEN "sleep" ELSE "iter"]
    /\ UNCHANGED <<tasks, submitLimit, faults, taskAgent, max_concurrent_tasks, running, task_queue,
                   active_tasks, stats, mainpc, wpc, wtask, wtmp, accepted,
                   calls, inflightAtStop, queuedAtStop, probes, wraised, wmode, execution_mode, nonExecVars>>

\* The capacity test of the poller: `len(self.active_tasks) < max_concurrent_tasks`.
HasCapacity(a) == Cardinality(active_tasks[a]) < max_concurrent_tasks[a]

\* `for task in tasks:` with the capacity test; `break` when at capacity.
Poll_Iter(a) ==
    /\ Alive(a) /\ pollpc[a] = "iter"
    /\ IF polllist[a] = <<>>
       THEN /\ pollpc' = [pollpc EXCEPT ![a] = "sleep"]
            /\ UNCHANGED polllist
       ELSE IF HasCapacity(a)
       THEN /\ pollpc' = [pollpc EXCEPT ![a] = "accept"]
            /\ UNCHANGED polllist
       ELSE /\ pollpc' = [pollpc EXCEPT ![a] = "sleep"]
            /\ polllist' = [polllist EXCEPT ![a] = <<>>]
    /\ UNCHANGED <<tasks, submitLimit, faults, taskAgent, max_concurrent_tasks, running, task_queue,
                   active_tasks, stats, mainpc, wpc, wtask, wtmp, accepted,
                   calls, inflightAtStop, queuedAtStop, probes, wraised, wmode, execution_mode, nonExecVars>>

\* A poller that puts the descriptor on the queue whatever accept returned.
EnqueueAlways(a, t, ok) == Append(task_queue[a], t)

\* What the poller does with the answer of accept_task: enqueue on True.
EnqueueIf(a, t, ok) == IF ok THEN Append(task_queue[a], t) ELSE task_queue[a]

\* if self.zmemory.accept_task(task_id, agent_name): self.task_queue.put(task)
\* The server answers 200 only for a pending task and records the lease; a
\* request that fails, or that the server answers 404 or 400, makes
\* accept_task return False and the descriptor is skipped. Any other
\* exception ends the tick in the loop's handler.
Poll_Accept(a) ==
    /\ Alive(a) /\ pollpc[a] = "accept"
    /\ LET t == Head(polllist[a]) IN
       \E o \in CallOutcomes :
        LET ok == (o = "ok" /\ SrvAcceptCheck(t)) IN
        /\ tasks' = IF ok THEN SrvAcceptSet(t, a) ELSE tasks
        /\ taskAgent' = IF ok THEN [taskAgent EXCEPT ![t] = a] ELSE taskAgent
        /\ accepted' = IF ok THEN [accepted EXCEPT ![a] = @ \cup {t}] ELSE accepted
        /\ IF o = "raise"
           THEN /\ pollpc' = [pollpc EXCEPT ![a] = "sleep"]
                /\ polllist' = [polllist EXCEPT ![a] = <<>>]
                /\ UNCHANGED task_queue
           ELSE /\ pollpc' = [pollpc EXCEPT ![a] = "iter"]
                /\ polllist' = [polllist EXCEPT ![a] = Tail(@)]
                /\ task_queue' = [task_queue EXCEPT ![a] = EnqueueIf(a, t, ok)]
    /\ UNCHANGED <<submitLimit, faults, max_concurrent_tasks, running, active_tasks,
                   stats, mainpc, wpc, wtask, wtmp, calls, inflightAtStop, queuedAtStop, probes, wraised, wmode, execution_mode, nonExecVars>>

\* time.sleep(polling_interval_seconds), or the 5 s of the handler, is over.
Poll_Sleep(a) ==
    /\ Alive(a) /\ pollpc[a] = "sleep"
    /\ pollpc' = [pollpc EXCEPT ![a] = "loop"]
    /\ UNCHANGED <<tasks, submitLimit, faults, taskAgent, max_concurrent_tasks, running, task_queue,
                   active_tasks, stats, mainpc, polllist, wpc, wtask, wtmp,
                   accepted, calls, inflightAtStop, queuedAtStop, probes, wraised, wmode, execution_mode, nonExecVars>>

\* ------------------------------------------------------- worker threads
\* `while self.running:` of _execution_loop.
Work_Check(a, w) ==
    /\ Alive(a) /\ wpc[a][w] = "check"
    /\ wpc' = [wpc EXCEPT ![a][w] = IF running[a] THEN "get" ELSE "exit"]
    /\ UNCHANGED <<tasks, submitLimit, faults, taskAgent, max_concurrent_tasks, running, task_queue,
                   active_tasks, stats, mainpc, pollpc, polllist, wtask, wtmp,
                   accepted, calls, inflightAtStop, queuedAtStop, probes, wraised, wmode, execution_mode, nonExecVars>>

\* task = self.task_queue.get(timeout=1): the head of the queue, or Empty
\* after a second without one (`continue`).
Work_Get(a, w) ==
    /\ Alive(a) /\ wpc[a][w] = "get"
    /\ IF task_queue[a] # <<>>
       THEN /\ wtask' = [wtask EXCEPT ![a][w] = Head(task_queue[a])]
            /\ task_queue' = [task_queue EXCEPT ![a] = Tail(@)]
            /\ wpc' = [wpc EXCEPT ![a][w] = "start"]
       ELSE /\ wpc' = [wpc EXCEPT ![a][w] = "check"]
            /\ UNCHANGED <<wtask, task_queue>>
    /\ UNCHANGED <<tasks, submitLimit, faults, taskAgent, max_concurrent_tasks, running,
                   active_tasks, stats, mainpc, pollpc, polllist, wtmp,
                   accepted, calls, inflightAtStop, queuedAtStop, probes, wraised, wmode, execution_mode, nonExecVars>>

\* _execute_task: self.active_tasks[task_id] = {...}
Exec_Start(a, w) ==
    /\ Alive(a) /\ wpc[a][w] = "start"
    /\ active_tasks' = [active_tasks EXCEPT ![a] = @ \cup {wtask[a][w]}]
    /\ wpc' = [wpc EXCEPT ![a][w] = "total_read"]
    /\ wraised' = [wraised EXCEPT ![a][w] = FALSE]
    /\ UNCHANGED <<tasks, submitLimit, faults, taskAgent, max_concurrent_tasks, running, task_queue,
                   stats, mainpc, pollpc, polllist, wtask, wtmp, accepted,
                   calls, inflightAtStop, queuedAtStop, probes, wmode, execution_mode, nonExecVars>>

\* The counter each `self.stats[k] += 1` of _execute_task updates, by the
\* position of the worker, and where the worker goes after the update.
CounterAt(pc) ==
    CASE pc \in {"total_read", "total_write"} -> "total_tasks"
      [] pc \in {"completed_read", "completed_write"} -> "completed"
      [] OTHER -> "failed"

AfterCounter(pc) ==
    CASE pc = "total_write" -> "status"
      [] pc = "completed_write" -> "complete"
      [] pc = "failed_write" -> "fail"
      [] OTHER -> "exc_fail"

WriteOf(pc) ==
    CASE pc = "total_read" -> "total_write"
      [] pc = "completed_read" -> "completed_write"
      [] pc = "failed_read" -> "failed_write"
      [] OTHER -> "excfailed_write"

ReadPcs == {"total_read", "completed_read", "failed_read", "excfailed_read"}
WritePcs == {"total_write", "completed_write", "failed_write", "excfailed_write"}

\* `self.stats[k] += 1`, first half: load the counter.
Stat_Read(a, w) ==
    /\ Alive(a) /\ wpc[a][w] \in ReadPcs
    /\ wtmp' = [wtmp EXCEPT ![a][w] = stats[a][CounterAt(wpc[a][w])]]
    /\ wpc' = [wpc EXCEPT ![a][w] = WriteOf(@)]
    /\ wmode' = [wmode EXCEPT ![a][w] = NoMode]
    /\ UNCHANGED <<tasks, submitLimit, faults, taskAgent, max_concurrent_tasks, running, task_queue,
                   active_tasks, stats, mainpc, pollpc, polllist, wtask,
                   accepted, calls, inflightAtStop, queuedAtStop, probes, wraised, execution_mode, nonExecVars>>

\* `self.stats[k] += 1`, second half: store the loaded value plus one.
Stat_Write(a, w) ==
    /\ Alive(a) /\ wpc[a][w] \in WritePcs
    /\ stats' = [stats EXCEPT ![a][CounterAt(wpc[a][w])] = wtmp[a][w] + 1]
    /\ wtmp' = [wtmp EXCEPT ![a][w] = 0]
    /\ wpc' = [wpc EXCEPT ![a][w] = AfterCounter(@)]
    /\ UNCHANGED <<tasks, submitLimit, faults, taskAgent, max_concurrent_tasks, running, task_queue,
                   active_tasks, mainpc, pollpc, polllist, wtask, accepted,
                   calls, inflightAtStop, queuedAtStop, probes, wraised, wmode, execution_mode, nonExecVars>>

\* self.zmemory.update_task_status(task_id, 'in_progress', progress=0), the
\* first statement of the try block. Its result is not looked at; an
\* exception goes to `except Exception`.
Exec_Status(a, w) ==
    /\ Alive(a) /\ wpc[a][w] = "status"
    /\ LET t == wtask[a][w] IN
       \E o \in CallOutcomes :
        /\ calls' = [calls EXCEPT ![a][t].status = @ + 1]
        /\ wraised' = [wraised EXCEPT ![a][w] = @ \/ o = "raise"]
        /\ tasks' = IF o = "ok" THEN SrvUpdateStatus(t, "in_progress") ELSE tasks
        /\ wpc' = [wpc EXCEPT ![a][w] = IF o = "raise" THEN "excfailed_read" ELSE "backend"]
    /\ UNCHANGED <<submitLimit, faults, taskAgent, max_concurrent_tasks, running, task_queue,
                   active_tasks, stats, mainpc, pollpc, polllist, wtask, wtmp,
                   accepted, inflightAtStop, queuedAtStop, probes, wmode, execution_mode, nonExecVars>>

\* Where _execute_task goes with what the back-end did: `if result['success']`
\* leads to the completed counter, else to the failed counter; an exception
\* to the handler.
AfterBackend(r) ==
    CASE r = "success" -> "completed_read"
      [] r = "failure" -> "failed_read"
      [] OTHER -> "excfailed_read"

\* execution_mode = task.get('execution_mode', self.config.execution_mode)
SelectedMode(a, override) ==
    IF override = "none" THEN execution_mode[a] ELSE override

\* __init__ builds the terminal manager and the terminal executor only when
\* config.execution_mode is "terminal".
HasTerminalExecutor(a) == execution_mode[a] = "terminal"

\* The back-end that runs a task of the selected mode: _execute_in_terminal
\* for 'terminal', which raises RuntimeError when there is no terminal
\* executor ("refused"); self.claude.execute_task for every other mode.
BackendFor(a, mode) ==
    IF mode = "terminal"
    THEN (IF HasTerminalExecutor(a) THEN "terminal" ELSE "refused")
    ELSE "api"

\* What the back-end hands to _execute_task. ClaudeClient.execute_task and
\* ClaudeCodeExecutor.execute_task_in_terminal catch every exception and
\* return a result with success True or False.
BackendOutcomes(backend) ==
    IF backend = "refused" THEN {"raise"} ELSE {"success", "failure"}

\* result = self._execute_in_terminal(task) or self.claude.execute_task(...),
\* by the execution_mode of the task descriptor (read here, and only here).
Exec_Backend(a, w) ==
    /\ Alive(a) /\ wpc[a][w] = "backend"
    /\ \E override \in Overrides :
        LET backend == BackendFor(a, SelectedMode(a, override)) IN
        \E r \in BackendOutcomes(backend) :
            /\ wpc' = [wpc EXCEPT ![a][w] = AfterBackend(r)]
            /\ wraised' = [wraised EXCEPT ![a][w] = @ \/ r = "raise"]
            /\ wmode' = [wmode EXCEPT ![a][w] = [override |-> override, ran |-> backend]]
    /\ UNCHANGED <<tasks, submitLimit, faults, taskAgent, max_concurrent_tasks, running, task_queue,
                   active_tasks, stats, mainpc, pollpc, polllist, wtask, wtmp,
                   accepted, calls, inflightAtStop, queuedAtStop, probes,
                   execution_mode, nonExecVars>>

\* A try block without its handler: a reporting call that raises is let go.
AfterReportUnhandled(o) == "finally"

\* Where a terminal reporting call inside the try block goes: to `finally`
\* when it returns (True or False alike), to the handler when it raises.
AfterReport(o) == IF o = "raise" THEN "excfailed_read" ELSE "finally"

\* self.zmemory.complete_task(task_id, completion_result)
Exec_Complete(a, w) ==
    /\ Alive(a) /\ wpc[a][w] = "complete"
    /\ LET t == wtask[a][w] IN
       \E o \in CallOutcomes :
        /\ calls' = [calls EXCEPT ![a][t].complete = @ + 1]
        /\ wraised' = [wraised EXCEPT ![a][w] = @ \/ o = "raise"]
        /\ tasks' = IF o = "ok" THEN SrvComplete(t) ELSE tasks
        /\ wpc' = [wpc EXCEPT ![a][w] = AfterReport(o)]
    /\ UNCHANGED <<submitLimit, faults, taskAgent, max_concurrent_tasks, running, task_queue,
                   active_tasks, stats, mainpc, pollpc, polllist, wtask, wtmp,
                   accepted, inflightAtStop, queuedAtStop, probes, wmode, execution_mode, nonExecVars>>

\* self.zmemory.fail_task(task_id, error_msg) of the `else` branch
Exec_Fail(a, w) ==
    /\ Alive(a) /\ wpc[a][w] = "fail"
    /\ LET t == wtask[a][w] IN
       \E o \in CallOutcomes :
        /\ calls' = [calls EXCEPT ![a][t].fail = @ + 1]
        /\ wraised' = [wraised EXCEPT ![a][w] = @ \/ o = "raise"]
        /\ tasks' = IF o = "ok" THEN SrvFail(t) ELSE tasks
        /\ wpc' = [wpc EXCEPT ![a][w] = AfterReport(o)]
    /\ UNCHANGED <<submitLimit, faults, taskAgent, max_concurrent_tasks, running, task_queue,
                   active_tasks, stats, mainpc, pollpc, polllist, wtask, wtmp,
                   accepted, inflightAtStop, queuedAtStop, probes, wmode, execution_mode, nonExecVars>>

\* self.zmemory.fail_task(task_id, error_msg) of `except Exception`. If it
\* raises, `finally` still runs and the exception ends in the handler of
\* _execution_loop, which logs it.
Exec_ExcFail(a, w) ==
    /\ Alive(a) /\ wpc[a][w] = "exc_fail"
    /\ LET t == wtask[a][w] IN
       \E o \in CallOutcomes :
        /\ calls' = [calls EXCEPT ![a][t].fail = @ + 1]
        /\ wraised' = [wraised EXCEPT ![a][w] = @ \/ o = "raise"]
        /\ tasks' = IF o = "ok" THEN SrvFail(t) ELSE tasks
        /\ wpc' = [wpc EXCEPT ![a][w] = "finally"]
    /\ UNCHANGED <<submitLimit, faults, taskAgent, max_concurrent_tasks, running, task_queue,
                   active_tasks, stats, mainpc, pollpc, polllist, wtask, wtmp,
                   accepted, inflightAtStop, queuedAtStop, probes, wmode, execution_mode, nonExecVars>>

\* finally: del self.active_tasks[task_id]; back to the loop.
Exec_Finally(a, w) ==
    /\ Alive(a) /\ wpc[a][w] = "finally"
    /\ active_tasks' = [active_tasks EXCEPT ![a] = @ \ {wtask[a][w]}]
    /\ wtask' = [wtask EXCEPT ![a][w] = NoTask]
    /\ wraised' = [wraised EXCEPT ![a][w] = FALSE]
    /\ wpc' = [wpc EXCEPT ![a][w] = "check"]
    /\ UNCHANGED <<tasks, submitLimit, faults, taskAgent, max_concurrent_tasks, running, task_queue,
                   stats, mainpc, pollpc, polllist, wtmp, accepted, calls,
                   inflightAtStop, queuedAtStop, probes, wmode, execution_mode, nonExecVars>>

\* -------------------------------------------------------- AuthTokenManager
\* A token is named by the minute it expires at (the exp of the JWT).
None == -1
Tokens == 1..(MaxClock + TokenLifetime)
NoFile == [exists |-> FALSE, access_token |-> None, expires_at |-> None]

\* Something other than get_auth_headers has just happened.
Disturbed == [calls |-> 0, changed |-> FALSE]

\* A client whose refresh is answered now one way, now the other, whatever
\* the state of the identity provider.
GetSessionUnstable(held) ==
    IF held = None THEN {None}
    ELSE IF now < held THEN {held}
    ELSE IF idpUp THEN {now + TokenLifetime, None}
    ELSE {None}

\* AuthTokenManager.__init__ in a fresh process; the cache file is absent.
InitAuth ==
    /\ now = 0
    /\ cached_token = None
    /\ token_expiry = None
    /\ cacheFile = NoFile
    /\ sbSession = None
    /\ idpUp = TRUE
    /\ refreshUp = TRUE
    /\ lastReturn = [token |-> None, at |-> 0, validated |-> None]
    /\ quiet = Disturbed

\* GET /auth/v1/user with the token as bearer: 200 for a token that has not
\* expired, when the identity provider can be reached.
UserEndpointOK(tok) == idpUp /\ now < tok

\* What a call of get_valid_token that returns tok has seen the identity
\* provider confirm: tok itself, if the provider answers 200 for it now.
Probed(tok) == IF tok # None /\ UserEndpointOK(tok) THEN tok ELSE None

\* A _validate_token that takes every answer for a valid token.
ValidateTokenAnyAnswer(tok) == TRUE

\* _validate_token: True when GET /auth/v1/user answers 200; a timeout, a
\* network failure or any other status gives False.
ValidateToken(tok) == UserEndpointOK(tok)

\* A _clear_cached_session that leaves the file where it is.
ClearKeepsFile(file) == file

\* _clear_cached_session: unlink the cache file if it exists.
ClearCachedSession(file) == NoFile

\* _load_cached_session: the document, if the file exists, parses and its
\* expires_at is later than now; else None.
LoadCachedSession(file) ==
    IF file.exists /\ file.expires_at # None /\ file.expires_at > now
    THEN file ELSE NoFile

\* supabase.auth.set_session(access, refresh): the session of the token if it
\* has not expired, a refreshed session if it has and the provider grants the
\* refresh; None stands for an exception or an answer without a session.
SetSessionResults(tok) ==
    IF ~idpUp THEN {None}
    ELSE IF now < tok THEN {tok}
    ELSE IF refreshUp THEN {now + TokenLifetime}
    ELSE {None}

\* supabase.auth.get_session(): the session the client holds, refreshed if it
\* has expired; None when there is none or the refresh fails.
GetSessionResults(held) ==
    IF held = None THEN {None}
    ELSE IF now < held THEN {held}
    ELSE IF idpUp /\ refreshUp THEN {now + TokenLifetime}
    ELSE {None}

\* The test of the in-memory path of get_valid_token.
MemoryFresh ==
    /\ cached_token # None
    /\ token_expiry # None
    /\ now < token_expiry - ExpiryMargin

\* get_valid_token: the in-memory token if it is fresh and validates; else
\* the cached session of the file, restored and validated; else the session
\* of the client, validated and written back to the file; else None, with
\* the cache file cleared.
GetValidToken ==
    IF MemoryFresh /\ ValidateToken(cached_token)
    THEN /\ lastReturn' = [token |-> cached_token, at |-> now,
                          validated |-> Probed(cached_token)]
         /\ UNCHANGED <<cached_token, token_expiry, cacheFile, sbSession>>
    ELSE
      LET loaded == LoadCachedSession(cacheFile) IN
      \E r \in (IF loaded.exists THEN SetSessionResults(loaded.access_token) ELSE {None}) :
        LET restored == loaded.exists /\ r # None
            diskOK == restored /\ ValidateToken(r)
            held1 == IF restored THEN r ELSE sbSession
            file1 == IF loaded.exists /\ ~diskOK
                     THEN ClearCachedSession(cacheFile) ELSE cacheFile
        IN
        IF diskOK
        THEN /\ cached_token' = r
             /\ token_expiry' = r
             /\ sbSession' = r
             /\ lastReturn' = [token |-> r, at |-> now, validated |-> Probed(r)]
             /\ UNCHANGED cacheFile
        ELSE
          \E g \in GetSessionResults(held1) :
            IF g # None /\ ValidateToken(g)
            THEN /\ cached_token' = g
                 /\ sbSession' = g
                 /\ cacheFile' = [exists |-> TRUE, access_token |-> g,
                                  expires_at |-> LoadCachedSession(file1).expires_at]
                 /\ lastReturn' = [token |-> g, at |-> now, validated |-> Probed(g)]
                 /\ UNCHANGED token_expiry
            ELSE /\ cacheFile' = ClearCachedSession(file1)
                 /\ sbSession' = IF g # None THEN g ELSE held1
                 /\ lastReturn' = [token |-> None, at |-> now, validated |-> None]
                 /\ UNCHANGED <<cached_token, token_expiry>>

\* get_auth_headers: one call of get_valid_token.
GetAuthHeaders ==
    /\ GetValidToken
    /\ quiet' = IF quiet.calls = 0
                THEN [calls |-> 1,
                      changed |-> cached_token' # cached_token \/ cacheFile' # cacheFile]
                ELSE [quiet EXCEPT !.calls = 2]
    /\ UNCHANGED <<now, idpUp, refreshUp, nonAuthVars>>

\* set_session_from_token(access_token): on a session, write the cache file
\* and fill the in-memory token and expiry.
SetSessionFromToken ==
    /\ \E tok \in Tokens : \E r \in SetSessionResults(tok) :
        IF r # None
        THEN /\ cacheFile' = [exists |-> TRUE, access_token |-> r, expires_at |-> r]
             /\ cached_token' = r
             /\ token_expiry' = r
             /\ sbSession' = r
        ELSE UNCHANGED <<cacheFile, cached_token, token_expiry, sbSession>>
    /\ quiet' = Disturbed
    /\ UNCHANGED <<now, idpUp, refreshUp, lastReturn, nonAuthVars>>

\* logout: sign out, clear the cache file and the in-memory token.
Logout ==
    /\ sbSession' = None
    /\ cacheFile' = NoFile
    /\ cached_token' = None
    /\ token_expiry' = None
    /\ quiet' = Disturbed
    /\ UNCHANGED <<now, idpUp, refreshUp, lastReturn, nonAuthVars>>

\* The process ends and a new one constructs its AuthTokenManager: the
\* in-memory fields and the client start empty, the cache file stays.
NewProcess ==
    /\ cached_token' = None
    /\ token_expiry' = None
    /\ sbSession' = None
    /\ quiet' = Disturbed
    /\ UNCHANGED <<now, cacheFile, idpUp, refreshUp, lastReturn, nonAuthVars>>

\* A minute passes.
Tick ==
    /\ now < MaxClock
    /\ now' = now + 1
    /\ quiet' = Disturbed
    /\ UNCHANGED <<cached_token, token_expiry, cacheFile, sbSession, idpUp, refreshUp, lastReturn, nonAuthVars>>

\* The identity provider becomes unreachable, or reachable again, or changes
\* its answer to a refresh.
IdpFlip ==
    /\ \/ idpUp' = ~idpUp /\ UNCHANGED refreshUp
       \/ refreshUp' = ~refreshUp /\ UNCHANGED idpUp
    /\ quiet' = Disturbed
    /\ UNCHANGED <<now, cached_token, token_expiry, cacheFile, sbSession, lastReturn, nonAuthVars>>

NextAuth ==
    \/ GetAuthHeaders \/ SetSessionFromToken \/ Logout \/ NewProcess
    \/ Tick \/ IdpFlip

\* ----------------------------------------------------------- ProcessMonitor
\* The monitor keeps nothing across PIDs but the two dictionaries. The
\* monitor loops are followed statement by statement for one PID (LoopPids);
\* the calls from outside the loops are followed for two.
Pids == {"pid", "other"}
LoopPids == {"pid"}
Slots == 1..MaxAttach
NoObj == 0
TerminalStates == {"completed", "failed", "timeout", "killed"}

\* ProcessMonitor.__init__: nothing is monitored.
InitMonitor ==
    /\ procAlive = [p \in Pids |-> TRUE]
    /\ monitored = [p \in Pids |-> NoObj]
    /\ metrics = [p \in Pids |-> [k \in Slots |-> [state |-> "none", end_time |-> FALSE]]]
    /\ lpc = [p \in Pids |-> [k \in Slots |-> "off"]]
    /\ lref = [p \in Pids |-> [k \in Slots |-> NoObj]]
    /\ sigpc = [p \in Pids |-> "idle"]
    /\ sigref = [p \in Pids |-> NoObj]
    /\ callbacks = [p \in Pids |-> FALSE]
    /\ delivered = [p \in Pids |-> 0]

\* ProcessMetrics(pid=pid, start_time=...): state STARTING, end_time None.
NewMetrics == [state |-> "starting", end_time |-> FALSE]

\* attach_to_process: a new ProcessMetrics object replaces the entry of the
\* PID, its list of callbacks is emptied and a monitor thread is started.
AttachToProcess(p) ==
    /\ \E k \in Slots :
        /\ metrics[p][k].state = "none"
        /\ \A j \in Slots : j < k => metrics[p][j].state # "none"
        /\ metrics' = [metrics EXCEPT ![p][k] = NewMetrics]
        /\ monitored' = [monitored EXCEPT ![p] = k]
        /\ lpc' = [lpc EXCEPT ![p][k] = "top"]
    /\ callbacks' = [callbacks EXCEPT ![p] = FALSE]
    /\ UNCHANGED <<procAlive, lref, sigpc, sigref, delivered, nonMonVars>>

\* register_callback: a subscriber is appended to the callbacks of the PID.
RegisterCallback(p) ==
    /\ ~callbacks[p]
    /\ callbacks' = [callbacks EXCEPT ![p] = TRUE]
    /\ UNCHANGED <<procAlive, monitored, metrics, lpc, lref, sigpc, sigref, delivered,
                   nonMonVars>>

\* The monitored process ends.
ProcessExit(p) ==
    /\ procAlive[p]
    /\ procAlive' = [procAlive EXCEPT ![p] = FALSE]
    /\ UNCHANGED <<monitored, metrics, lpc, lref, sigpc, sigref, callbacks, delivered, nonMonVars>>

\* _monitor_loop: metrics = self.monitored_processes.get(pid); break if none.
Mon_Top(p, k) ==
    /\ lpc[p][k] = "top"
    /\ lref' = [lref EXCEPT ![p][k] = monitored[p]]
    /\ lpc' = [lpc EXCEPT ![p][k] = IF monitored[p] = NoObj THEN "done" ELSE "alive"]
    /\ UNCHANGED <<procAlive, monitored, metrics, sigpc, sigref, callbacks, delivered, nonMonVars>>

\* if not self._is_process_alive(pid): self._mark_completed(pid); break
Mon_Alive(p, k) ==
    /\ lpc[p][k] = "alive"
    /\ lpc' = [lpc EXCEPT ![p][k] = IF procAlive[p] THEN "promote" ELSE "mark"]
    /\ UNCHANGED <<procAlive, monitored, metrics, lref, sigpc, sigref, callbacks, delivered, nonMonVars>>

\* if metrics.state == ProcessState.STARTING: the test.
Mon_PromoteTest(p, k) ==
    /\ lpc[p][k] = "promote"
    /\ lpc' = [lpc EXCEPT ![p][k] =
                 IF metrics[p][lref[p][k]].state = "starting" THEN "promote_set" ELSE "files"]
    /\ UNCHANGED <<procAlive, monitored, metrics, lref, sigpc, sigref, callbacks, delivered, nonMonVars>>

\* metrics.state = ProcessState.RUNNING
Mon_PromoteSet(p, k) ==
    /\ lpc[p][k] = "promote_set"
    /\ metrics' = [metrics EXCEPT ![p][lref[p][k]].state = "running"]
    /\ lpc' = [lpc EXCEPT ![p][k] = "files"]
    /\ UNCHANGED <<procAlive, monitored, lref, sigpc, sigref, callbacks, delivered, nonMonVars>>

\* The object as the handler of the loop leaves it:
\* `except Exception: metrics.state = ProcessState.FAILED; break`.
OnLoopException(m) == [m EXCEPT !.state = "failed"]

\* The rest of a tick: resource sample and the two log files. An exception
\* here (a log file removed between exists() and stat()) ends the loop in its
\* handler.
Mon_Files(p, k) ==
    /\ lpc[p][k] = "files"
    /\ \E raised \in BOOLEAN :
        IF raised
        THEN /\ metrics' = [metrics EXCEPT ![p][lref[p][k]] = OnLoopException(@)]
             /\ lpc' = [lpc EXCEPT ![p][k] = "done"]
             /\ lref' = [lref EXCEPT ![p][k] = NoObj]
        ELSE /\ lpc' = [lpc EXCEPT ![p][k] = "sleep"]
             /\ UNCHANGED <<metrics, lref>>
    /\ UNCHANGED <<procAlive, monitored, sigpc, sigref, callbacks, delivered, nonMonVars>>

\* time.sleep(self.check_interval)
Mon_Sleep(p, k) ==
    /\ lpc[p][k] = "sleep"
    /\ lpc' = [lpc EXCEPT ![p][k] = "top"]
    /\ UNCHANGED <<procAlive, monitored, metrics, lref, sigpc, sigref, callbacks, delivered, nonMonVars>>

\* _mark_completed: metrics = self.monitored_processes.get(pid); if metrics:
Mark_Fetch(p, k) ==
    /\ lpc[p][k] = "mark"
    /\ lref' = [lref EXCEPT ![p][k] = monitored[p]]
    /\ lpc' = [lpc EXCEPT ![p][k] = IF monitored[p] = NoObj THEN "done" ELSE "mark_end"]
    /\ UNCHANGED <<procAlive, monitored, metrics, sigpc, sigref, callbacks, delivered, nonMonVars>>

\* _mark_completed: metrics.end_time = time.time()
Mark_EndTime(p, k) ==
    /\ lpc[p][k] = "mark_end"
    /\ metrics' = [metrics EXCEPT ![p][lref[p][k]].end_time = TRUE]
    /\ lpc' = [lpc EXCEPT ![p][k] = "mark_state"]
    /\ UNCHANGED <<procAlive, monitored, lref, sigpc, sigref, callbacks, delivered, nonMonVars>>

\* _mark_completed: metrics.state = ProcessState.COMPLETED,
\* _trigger_callbacks(pid, 'completed', metrics) to every callback of the
\* PID, and the `break` of the loop.
Mark_State(p, k) ==
    /\ lpc[p][k] = "mark_state"
    /\ metrics' = [metrics EXCEPT ![p][lref[p][k]].state = "completed"]
    /\ lpc' = [lpc EXCEPT ![p][k] = "done"]
    /\ lref' = [lref EXCEPT ![p][k] = NoObj]
    /\ delivered' = [delivered EXCEPT ![p] = IF callbacks[p] THEN @ + 1 ELSE @]
    /\ UNCHANGED <<procAlive, monitored, sigpc, sigref, callbacks, nonMonVars>>

\* A handle_timeout / handle_kill that ends the process it is called for.
SignalKills(alive) == FALSE

\* What handle_timeout / handle_kill do to the process: they send it nothing.
AliveAfterSignal(alive) == alive

\* The state handle_timeout and handle_kill write.
SignalState(sig) == IF sig = "timeout" THEN "timeout" ELSE "killed"

\* handle_timeout / handle_kill: fetch the object; if there is one,
\* metrics.state = TIMEOUT / KILLED.
Handle_State(p, sig) ==
    /\ sigpc[p] = "idle"
    /\ monitored[p] # NoObj
    /\ sigref' = [sigref EXCEPT ![p] = monitored[p]]
    /\ metrics' = [metrics EXCEPT ![p][monitored[p]].state = SignalState(sig)]
    /\ sigpc' = [sigpc EXCEPT ![p] = "end_time"]
    /\ procAlive' = [procAlive EXCEPT ![p] = AliveAfterSignal(@)]
    /\ UNCHANGED <<monitored, lpc, lref, callbacks, delivered, nonMonVars>>

\* handle_timeout / handle_kill: metrics.end_time = time.time(), callbacks.
Handle_EndTime(p) ==
    /\ sigpc[p] = "end_time"
    /\ metrics' = [metrics EXCEPT ![p][sigref[p]].end_time = TRUE]
    /\ sigpc' = [sigpc EXCEPT ![p] = "idle"]
    /\ sigref' = [sigref EXCEPT ![p] = NoObj]
    /\ UNCHANGED <<procAlive, monitored, lpc, lref, callbacks, delivered, nonMonVars>>

\* detach: del self.monitored_processes[pid]; del self._callbacks[pid]
Detach(p) ==
    /\ monitored[p] # NoObj
    /\ monitored' = [monitored EXCEPT ![p] = NoObj]
    /\ callbacks' = [callbacks EXCEPT ![p] = FALSE]
    /\ UNCHANGED <<procAlive, metrics, lpc, lref, sigpc, sigref, delivered, nonMonVars>>

MonitorLoop(p, k) ==
    \/ Mon_Top(p, k) \/ Mon_Alive(p, k) \/ Mon_PromoteTest(p, k)
    \/ Mon_PromoteSet(p, k) \/ Mon_Files(p, k) \/ Mon_Sleep(p, k)
    \/ Mark_Fetch(p, k) \/ Mark_EndTime(p, k) \/ Mark_State(p, k)

NextMonitor ==
    \/ \E p \in LoopPids : AttachToProcess(p) \/ ProcessExit(p) \/ Detach(p)
    \/ \E p \in LoopPids : RegisterCallback(p)
    \/ \E p \in LoopPids : \E k \in Slots : MonitorLoop(p, k)
    \/ \E p \in LoopPids : \E sig \in {"timeout", "kill"} : Handle_State(p, sig)
    \/ \E p \in LoopPids : Handle_EndTime(p)

\* The calls made on the monitor from outside its loops, for every PID, while
\* the monitor threads are in the sleep of their tick.
NextSignals ==
    \/ \E p \in Pids : AttachToProcess(p) \/ ProcessExit(p) \/ Detach(p)
    \/ \E p \in Pids : RegisterCallback(p)
    \/ \E p \in Pids : \E sig \in {"timeout", "kill"} : Handle_State(p, sig)
    \/ \E p \in Pids : Handle_EndTime(p)

\* ------------------------------------------------- TerminalSessionManager
\* A session is named by the run that spawned it (session-{task_id}-{time}).
SessionIds == 1..NumRuns

NoSession == 0

\* How spawn_terminal reaches the process: a Popen handle (headless), the pid
\* pgrep found for the script of a terminal window, or a window whose pid was
\* not found (session.pid is None).
Kinds == {"process", "pid", "nopid"}

Subdirs == {"input", "output", "logs", ".claude"}

NoWorkspace == [exists |-> FALSE, dirs |-> {}]

NoResult == [success |-> FALSE, error |-> "none"]

NoCall == [op |-> "none", sid |-> NoSession, n |-> 0]

TimeoutMessage == "exceeded maximum execution time"

InitTerminal(cleanups) ==
    /\ active_sessions = {}
    /\ skind = [s \in SessionIds |-> "nopid"]
    /\ palive = [s \in SessionIds |-> FALSE]
    /\ returncode = [s \in SessionIds |-> None]
    /\ signals = [s \in SessionIds |-> 0]
    /\ terminate_calls = [s \in SessionIds |-> 0]
    /\ lastcall = NoCall
    /\ apicalls = 0
    /\ auto_cleanup \in cleanups
    /\ xrun = 0
    /\ xpc = "idle"
    /\ xworkspace = FALSE
    /\ xsession = NoSession
    /\ polls = 0
    /\ timedout = FALSE
    /\ workspaces = [s \in SessionIds |-> NoWorkspace]
    /\ xresult = [s \in SessionIds |-> NoResult]
    /\ xreport = [s \in SessionIds |-> "none"]

\* An is_running that takes a session without handle or pid for running as
\* long as its process is.
IsRunningByProcess(s) ==
    /\ s \in active_sessions
    /\ palive[s]

\* is_running: False for a session that is not in the table; poll() is None
\* for a Popen handle; os.kill(pid, 0) for a pid; False when there is neither.
IsRunning(s) ==
    /\ s \in active_sessions
    /\ skind[s] # "nopid"
    /\ palive[s]

\* A terminate_session without its test of the table.
AnySession(s) == TRUE

\* `if session_id not in self.active_sessions: return` of terminate_session.
KnownSession(s) == s \in active_sessions

\* The process after terminate()/kill() and wait(timeout=5), or after
\* os.kill(pid, 15 or 9): SIGKILL ends it, SIGTERM may be ignored (wait then
\* raises TimeoutExpired, which terminate_session logs).
AfterSignal(force) == IF force THEN {FALSE} ELSE {FALSE, TRUE}

\* terminate_session(session_id, force) as an effect on the table, the
\* processes and the signals delivered. A handle or a pid of a process that
\* has ended receives nothing (Popen skips it, os.kill raises and is logged);
\* the `finally` removes the session whatever happened.
DoTerminate(s, force) ==
    IF KnownSession(s)
    THEN /\ active_sessions' = active_sessions \ {s}
         /\ IF skind[s] # "nopid" /\ palive[s]
            THEN /\ signals' = [signals EXCEPT ![s] = @ + 1]
                 /\ \E alive \in AfterSignal(force) :
                        palive' = [palive EXCEPT ![s] = alive]
            ELSE UNCHANGED <<signals, palive>>
    ELSE UNCHANGED <<active_sessions, signals, palive>>

\* cleanup_session(session_id): terminate the session if it is in the table
\* and running, then delete it from the table if it is still there.
DoCleanup(s) ==
    IF s \in active_sessions
    THEN IF IsRunning(s)
         THEN DoTerminate(s, FALSE)
         ELSE /\ active_sessions' = active_sessions \ {s}
              /\ UNCHANGED <<signals, palive>>
    ELSE UNCHANGED <<active_sessions, signals, palive>>

\* The call the manager has just served.
Served(op, s) == [op |-> op, sid |-> s, n |-> lastcall.n + 1]

\* terminate_session called by a user of the manager.
Api_Terminate(s, force) ==
    /\ apicalls < MaxApiCalls
    /\ apicalls' = apicalls + 1
    /\ DoTerminate(s, force)
    /\ terminate_calls' = [terminate_calls EXCEPT ![s] = @ + 1]
    /\ lastcall' = Served("terminate", s)
    /\ UNCHANGED <<skind, returncode, auto_cleanup, xrun, xpc, xworkspace, xsession,
                   polls, timedout, workspaces, xresult, xreport, nonTermVars>>

\* cleanup_session called by a user of the manager.
Api_Cleanup(s) ==
    /\ apicalls < MaxApiCalls
    /\ apicalls' = apicalls + 1
    /\ DoCleanup(s)
    /\ terminate_calls' = [terminate_calls EXCEPT ![s] = IF IsRunning(s) THEN @ + 1 ELSE @]
    /\ lastcall' = Served("cleanup", s)
    /\ UNCHANGED <<skind, returncode, auto_cleanup, xrun, xpc, xworkspace, xsession,
                   polls, timedout, workspaces, xresult, xreport, nonTermVars>>

\* The spawned process ends by itself with an exit status.
SessionProcessExit(s) ==
    /\ palive[s]
    /\ palive' = [palive EXCEPT ![s] = FALSE]
    /\ \E code \in {0, 1} : returncode' = [returncode EXCEPT ![s] = code]
    /\ UNCHANGED <<active_sessions, skind, signals, terminate_calls, lastcall, apicalls,
                   auto_cleanup, xrun, xpc, xworkspace, xsession, polls, timedout,
                   workspaces, xresult, xreport, nonTermVars>>

\* get_exit_code: process.returncode of a session in the table that has a
\* Popen handle, None otherwise.
GetExitCode(s) ==
    IF s \in active_sessions /\ skind[s] = "process" /\ ~palive[s]
    THEN returncode[s] ELSE None

\* ----------------------------------------------------- ClaudeCodeExecutor
\* An except branch that reports the run as a success.
ExceptAsSuccess(message) == [success |-> TRUE, error |-> message]

\* The dict of the `except Exception as e` branch.
ExceptResult(message) == [success |-> FALSE, error |-> message]

\* What get_error returns: the text of the error log, which may be empty
\* (also "" when the session or the file is missing).
ErrorLogs == {"", "stderr"}

\* The value None of Python in the 'error' entry of a result.
NullError == "None"

\* 'error': error if error else None
ErrorField(error) == IF error = "" THEN NullError ELSE error

\* A result that counts an unknown exit code as a failure.
SuccessOnlyOnZero(exit_code, error) ==
    [success |-> exit_code = 0, error |-> ErrorField(error)]

\* success = exit_code == 0 or exit_code is None
SuccessResult(exit_code, error) ==
    [success |-> exit_code = 0 \/ exit_code = None, error |-> ErrorField(error)]

\* execute_task_in_terminal is entered for the next task: workspace = None,
\* session = None.
Ex_Begin ==
    /\ xpc = "idle" /\ xrun < NumRuns
    /\ xrun' = xrun + 1
    /\ xpc' = "create"
    /\ xworkspace' = FALSE
    /\ xsession' = NoSession
    /\ polls' = 0
    /\ timedout' = FALSE
    /\ UNCHANGED <<active_sessions, skind, palive, returncode, signals, terminate_calls,
                   lastcall, apicalls, auto_cleanup, workspaces, xresult, xreport,
                   nonTermVars>>

\* create_workspace: the directory and its input/, output/, logs/ and .claude/
\* subdirectories, then settings.json; an exception leaves what was made and
\* `workspace` stays None.
Ex_Create ==
    /\ xpc = "create"
    /\ \/ /\ workspaces' = [workspaces EXCEPT ![xrun] = [exists |-> TRUE, dirs |-> Subdirs]]
          /\ xworkspace' = TRUE
          /\ xpc' = "prepare"
          /\ UNCHANGED xresult
       \/ /\ \E made \in {NoWorkspace, [exists |-> TRUE, dirs |-> Subdirs]} :
                workspaces' = [workspaces EXCEPT ![xrun] = made]
          /\ xresult' = [xresult EXCEPT ![xrun] = ExceptResult("error")]
          /\ xpc' = "fin_terminate"
          /\ UNCHANGED xworkspace
    /\ UNCHANGED <<active_sessions, skind, palive, returncode, signals, terminate_calls,
                   lastcall, apicalls, auto_cleanup, xrun, xsession, polls, timedout,
                   xreport, nonTermVars>>

\* prepare_workspace and format_task_prompt, then spawn_terminal: the session
\* enters the table only when the spawn has succeeded; an exception of any of
\* the three goes to the except branch with session = None.
Ex_Spawn ==
    /\ xpc = "prepare"
    /\ \/ \E kind \in Kinds :
            /\ skind' = [skind EXCEPT ![xrun] = kind]
            /\ palive' = [palive EXCEPT ![xrun] = TRUE]
            /\ active_sessions' = active_sessions \cup {xrun}
            /\ xsession' = xrun
            /\ xpc' = "monitor"
            /\ UNCHANGED xresult
       \/ /\ xresult' = [xresult EXCEPT ![xrun] = ExceptResult("error")]
          /\ xpc' = "fin_terminate"
          /\ UNCHANGED <<skind, palive, active_sessions, xsession>>
    /\ UNCHANGED <<returncode, signals, terminate_calls, lastcall, apicalls, auto_cleanup,
                   xrun, xworkspace, polls, timedout, workspaces, xreport, nonTermVars>>

\* One turn of the loop of monitor_execution (a check every two seconds): the
\* session has ended -> True; the time is up -> False, and
\* execute_task_in_terminal raises TimeoutError, which its except branch turns
\* into a result.
Ex_Monitor ==
    /\ xpc = "monitor"
    /\ IF polls < MaxPolls
       THEN IF IsRunning(xsession)
            THEN /\ polls' = polls + 1
                 /\ UNCHANGED <<xpc, timedout, xresult>>
            ELSE /\ xpc' = "collect"
                 /\ UNCHANGED <<polls, timedout, xresult>>
       ELSE /\ timedout' = TRUE
            /\ xresult' = [xresult EXCEPT ![xrun] = ExceptResult(TimeoutMessage)]
            /\ xpc' = "fin_terminate"
            /\ UNCHANGED polls
    /\ UNCHANGED <<active_sessions, skind, palive, returncode, signals, terminate_calls,
                   lastcall, apicalls, auto_cleanup, xrun, xworkspace, xsession,
                   workspaces, xreport, nonTermVars>>

\* get_output, get_error, collect_artifacts, get_exit_code and the result
\* dict; an exception of any of them goes to the except branch.
Ex_Collect ==
    /\ xpc = "collect"
    /\ \/ \E error \in ErrorLogs :
            xresult' = [xresult EXCEPT ![xrun] = SuccessResult(GetExitCode(xsession), error)]
       \/ xresult' = [xresult EXCEPT ![xrun] = ExceptResult("error")]
    /\ xpc' = "fin_terminate"
    /\ UNCHANGED <<active_sessions, skind, palive, returncode, signals, terminate_calls,
                   lastcall, apicalls, auto_cleanup, xrun, xworkspace, xsession, polls,
                   timedout, workspaces, xreport, nonTermVars>>

\* `if session:` of the finally block.
HasSession(session) == session # NoSession

\* finally: self.terminal_manager.terminate_session(session.id)
Fin_Terminate ==
    /\ xpc = "fin_terminate"
    /\ IF HasSession(xsession)
       THEN /\ DoTerminate(xsession, FALSE)
            /\ terminate_calls' = [terminate_calls EXCEPT ![xsession] = @ + 1]
            /\ lastcall' = Served("terminate", xsession)
            /\ xpc' = "fin_cleanup"
       ELSE /\ xpc' = "fin_workspace"
            /\ UNCHANGED <<active_sessions, signals, palive, terminate_calls, lastcall>>
    /\ UNCHANGED <<skind, returncode, apicalls, auto_cleanup, xrun, xworkspace, xsession,
                   polls, timedout, workspaces, xresult, xreport, nonTermVars>>

\* finally: self.terminal_manager.cleanup_session(session.id)
Fin_Cleanup ==
    /\ xpc = "fin_cleanup"
    /\ DoCleanup(xsession)
    /\ terminate_calls' = [terminate_calls EXCEPT ![xsession] = IF IsRunning(xsession) THEN @ + 1 ELSE @]
    /\ lastcall' = Served("cleanup", xsession)
    /\ xpc' = "fin_workspace"
    /\ UNCHANGED <<skind, returncode, apicalls, auto_cleanup, xrun, xworkspace, xsession,
                   polls, timedout, workspaces, xresult, xreport, nonTermVars>>

\* A finally block that removes the workspace whatever auto_cleanup says.
RemovesAlways(workspace, cleanup) == workspace

\* `if workspace and self.auto_cleanup:` of the finally block.
RemovesWorkspace(workspace, cleanup) == workspace /\ cleanup

\* finally: cleanup_workspace removes the tree when it exists (shutil.rmtree
\* is taken to remove it); the result goes back to the caller.
Fin_Workspace ==
    /\ xpc = "fin_workspace"
    /\ workspaces' = IF RemovesWorkspace(xworkspace, auto_cleanup)
                     THEN [workspaces EXCEPT ![xrun] = NoWorkspace]
                     ELSE workspaces
    /\ xpc' = "report"
    /\ UNCHANGED <<active_sessions, skind, palive, returncode, signals, terminate_calls,
                   lastcall, apicalls, auto_cleanup, xrun, xworkspace, xsession, polls,
                   timedout, xresult, xreport, nonTermVars>>

\* error_msg = result.get('error', 'Unknown error'): the entry of the result,
\* which every result of this back-end has; the default is for a missing key.
ErrorMsg(result) == result.error

\* _execute_task: complete_task when result['success'], fail_task otherwise.
ReportFor(result) == IF result.success THEN "complete" ELSE "fail"

\* The executor core reports the result of the back-end.
Core_Report ==
    /\ xpc = "report"
    /\ xreport' = [xreport EXCEPT ![xrun] = ReportFor(xresult[xrun])]
    /\ xpc' = "idle"
    /\ UNCHANGED <<active_sessions, skind, palive, returncode, signals, terminate_calls,
                   lastcall, apicalls, auto_cleanup, xrun, xworkspace, xsession, polls,
                   timedout, workspaces, xresult, nonTermVars>>

NextTerminal ==
    \/ Ex_Begin
    \/ Ex_Create
    \/ Ex_Spawn
    \/ Ex_Monitor
    \/ Ex_Collect
    \/ Fin_Terminate
    \/ Fin_Cleanup
    \/ Fin_Workspace
    \/ Core_Report
    \/ \E s \in SessionIds : SessionProcessExit(s)
    \/ \E s \in SessionIds : \E force \in BOOLEAN : Api_Terminate(s, force)
    \/ \E s \in SessionIds : Api_Cleanup(s)

\* ------------------------------------------------------------ ZMemoryClient
\* test_connection, get_pending_tasks, accept_task, update_task_status,
\* complete_task, fail_task, upload_artifact.
ClientOps == {"health", "pending", "accept", "progress", "complete", "fail", "artifact"}

\* The request raised a requests.RequestException before any response.
Transport == 0

\* What the request of a call produces: a response with a status code (a 3xx
\* reaches the client when it carries no Location to follow, as a 304 does),
\* or a transport error.
Responses == {200, 304, 400, 401, 404, 500, Transport}

NoReturn == [op |-> "none", response |-> Transport, value |-> "none"]

InitClient ==
    /\ creturn = NoReturn
    /\ ccalls = 0

\* response.raise_for_status() raises HTTPError for 400 <= status < 600.
RaisesForStatus(status) == status >= 400 /\ status < 600

\* What a method returns when its request fails: [] for get_pending_tasks,
\* False for the others.
FailureValue(op) == IF op = "pending" THEN "empty" ELSE "false"

\* What the method returns for a response. test_connection compares the
\* status with 200; the others return True (the 'tasks' of the body for
\* get_pending_tasks) unless raise_for_status raises, and the handler of
\* requests.RequestException returns False / [].
ClientReturn(op, response) ==
    IF response = Transport THEN FailureValue(op)
    ELSE IF op = "health"
         THEN (IF response = 200 THEN "true" ELSE "false")
    ELSE IF RaisesForStatus(response) THEN FailureValue(op)
    ELSE IF op = "pending" THEN "tasks"
    ELSE "true"

\* One call of a client method and the response its request meets.
ClientCall(op, response) ==
    /\ ccalls < MaxClientCalls
    /\ ccalls' = ccalls + 1
    /\ creturn' = [op |-> op, response |-> response, value |-> ClientReturn(op, response)]
    /\ UNCHANGED nonClientVars

NextClient == \E op \in ClientOps : \E response \in Responses : ClientCall(op, response)

\* -------------------------------------- ClaudeCodeExecutor.collect_artifacts
Paths == 1..MaxFiles

TextSuffixes == {".txt", ".json", ".md", ".log"}

Suffixes == TextSuffixes \cup {".bin", ""}

NoEntry == [kind |-> "absent", size |-> 0, suffix |-> "", decodable |-> FALSE]

Directory == [kind |-> "dir", size |-> 0, suffix |-> "", decodable |-> FALSE]

\* A regular file: its st_size, its suffix and whether read_text() decodes it.
RegularFiles ==
    [kind : {"file"}, size : {InlineLimit - 1, InlineLimit, InlineLimit + 1},
     suffix : Suffixes, decodable : BOOLEAN]

Entries == RegularFiles \cup {NoEntry, Directory}

InitArtifacts(drawn) ==
    /\ outputFiles \in IF drawn THEN [Paths -> Entries] ELSE {[p \in Paths |-> NoEntry]}
    /\ artifacts = <<>>
    /\ collected = FALSE

\* A size test that lets a file of exactly the limit through.
InlineUpToLimit(f) == f.size <= InlineLimit /\ f.suffix \in TextSuffixes

\* `artifact['size'] < 100_000 and file_path.suffix in [...]`
InlineEligible(f) == f.size < InlineLimit /\ f.suffix \in TextSuffixes

\* The dict of one file; 'content' is set when the file is eligible and
\* read_text() does not raise (the bare except passes).
ArtifactOf(p, f) ==
    [path |-> p,
     size |-> f.size,
     type |-> IF f.suffix = "" THEN "unknown" ELSE f.suffix,
     content |-> InlineEligible(f) /\ f.decodable]

\* for file_path in output_dir.rglob("*"): if file_path.is_file(): ...
RECURSIVE Walk(_)
Walk(p) ==
    IF p > MaxFiles THEN <<>>
    ELSE (IF outputFiles[p].kind = "file"
          THEN <<ArtifactOf(p, outputFiles[p])>> ELSE <<>>) \o Walk(p + 1)

CollectArtifacts ==
    /\ ~collected
    /\ collected' = TRUE
    /\ artifacts' = Walk(1)
    /\ UNCHANGED <<outputFiles, nonArtVars>>

NextArtifacts == CollectArtifacts

\* ------------------------------- ProcessMonitor: the loop and the output log
\* One PID, attached once with an output file, and the subscribers
\* registered for it before the first tick. The error file is followed by
\* the same statements as the output file and is left out.
\* The log is text: a character takes one byte or two (UTF-8); the process
\* appends whole characters.
CharWidths == {1, 2}
Subscribers == <<"s1", "s2">>
NoEvent == [type |-> "none", from |-> 0, to |-> 0, subs |-> <<>>]

InitTail ==
    /\ output_file = <<>>
    /\ tail_alive = TRUE
    /\ tail_entry = TRUE
    /\ tail_callbacks = Subscribers
    /\ tail_state = "starting"
    /\ tail_pc = "top"
    /\ last_output_size = 0
    /\ current_size = 0
    /\ pending = NoEvent
    /\ events = <<>>

\* The bytes of the first k characters of the file.
RECURSIVE BytesUpTo(_, _)
BytesUpTo(file, k) == IF k = 0 THEN 0 ELSE file[k] + BytesUpTo(file, k - 1)

\* output_file.stat().st_size
StatSize(file) == BytesUpTo(file, Len(file))

\* _read_new_content: open(file_path, 'r'); f.seek(start_pos);
\* f.read(end_pos - start_pos). The file is open in text mode: read(n)
\* returns up to n characters from the position, as far as the file goes
\* now. The value is the byte offset the content returned ends at; a
\* position inside a character does not decode (caught: "" is returned).
ReadNewContent(file, start_pos, end_pos) ==
    IF \E k \in 0..Len(file) : BytesUpTo(file, k) = start_pos
    THEN LET k == CHOOSE i \in 0..Len(file) : BytesUpTo(file, i) = start_pos
             n == end_pos - start_pos
             m == IF k + n <= Len(file) THEN k + n ELSE Len(file)
         IN BytesUpTo(file, m)
    ELSE start_pos

\* The monitored process appends a character to its output log.
Tail_Write ==
    /\ tail_alive
    /\ Len(output_file) < MaxChars
    /\ \E w \in CharWidths : output_file' = Append(output_file, w)
    /\ UNCHANGED <<tail_alive, tail_entry, tail_callbacks, tail_state, tail_pc,
                   last_output_size, current_size, pending, events, nonTailVars>>

\* The monitored process ends.
Tail_Exit ==
    /\ tail_alive
    /\ tail_alive' = FALSE
    /\ UNCHANGED <<output_file, tail_entry, tail_callbacks, tail_state, tail_pc,
                   last_output_size, current_size, pending, events, nonTailVars>>

\* detach(pid): the entries of the PID are deleted from monitored_processes
\* and from _callbacks, under the lock.
Tail_Detach ==
    /\ tail_entry
    /\ tail_entry' = FALSE
    /\ tail_callbacks' = <<>>
    /\ UNCHANGED <<output_file, tail_alive, tail_state, tail_pc,
                   last_output_size, current_size, pending, events, nonTailVars>>

\* while True: metrics = self.monitored_processes.get(pid); break if none.
Tail_Top ==
    /\ tail_pc = "top"
    /\ tail_pc' = IF tail_entry THEN "alive" ELSE "done"
    /\ UNCHANGED <<output_file, tail_alive, tail_entry, tail_callbacks, tail_state,
                   last_output_size, current_size, pending, events, nonTailVars>>

\* if not self._is_process_alive(pid): self._mark_completed(pid); break
\* else STARTING becomes RUNNING and the resource sample is taken.
Tail_Alive ==
    /\ tail_pc = "alive"
    /\ IF tail_alive
       THEN /\ tail_pc' = "stat"
            /\ tail_state' = IF tail_state = "starting" THEN "running" ELSE tail_state
       ELSE /\ tail_pc' = "mark"
            /\ UNCHANGED tail_state
    /\ UNCHANGED <<output_file, tail_alive, tail_entry, tail_callbacks,
                   last_output_size, current_size, pending, events, nonTailVars>>

\* _mark_completed: fetch the entry; if there is one set end_time and state
\* COMPLETED and go on to _trigger_callbacks(pid, 'completed', metrics).
Tail_Mark ==
    /\ tail_pc = "mark"
    /\ IF tail_entry
       THEN /\ tail_state' = "completed"
            /\ pending' = [type |-> "completed", from |-> 0, to |-> 0, subs |-> <<>>]
            /\ tail_pc' = "fetch"
       ELSE /\ tail_pc' = "done"
            /\ UNCHANGED <<tail_state, pending>>
    /\ UNCHANGED <<output_file, tail_alive, tail_entry, tail_callbacks,
                   last_output_size, current_size, events, nonTailVars>>

\* if output_file and output_file.exists(): current_size = stat().st_size;
\* `if current_size > last_output_size`. A file removed between exists()
\* and stat() raises: `except Exception: metrics.state = FAILED; break`.
Tail_Stat ==
    /\ tail_pc = "stat"
    /\ \E raised \in BOOLEAN :
        IF raised
        THEN /\ tail_state' = "failed"
             /\ tail_pc' = "done"
             /\ UNCHANGED current_size
        ELSE /\ current_size' = StatSize(output_file)
             /\ tail_pc' = IF StatSize(output_file) > last_output_size
                           THEN "read" ELSE "sleep"
             /\ UNCHANGED tail_state
    /\ UNCHANGED <<output_file, tail_alive, tail_entry, tail_callbacks,
                   last_output_size, pending, events, nonTailVars>>

\* new_content = self._read_new_content(output_file, last_output_size,
\* current_size); last_output_size = current_size; then
\* _trigger_callbacks(pid, 'output', new_content).
Tail_Read ==
    /\ tail_pc = "read"
    /\ pending' = [type |-> "output", from |-> last_output_size,
                   to |-> ReadNewContent(output_file, last_output_size, current_size),
                   subs |-> <<>>]
    /\ last_output_size' = current_size
    /\ tail_pc' = "fetch"
    /\ UNCHANGED <<output_file, tail_alive, tail_entry, tail_callbacks, tail_state,
                   current_size, events, nonTailVars>>

\* _trigger_callbacks: with self._lock: callbacks = self._callbacks.get(pid, [])
Trig_Fetch ==
    /\ tail_pc = "fetch"
    /\ pending' = [pending EXCEPT !.subs = tail_callbacks]
    /\ tail_pc' = "call"
    /\ UNCHANGED <<output_file, tail_alive, tail_entry, tail_callbacks, tail_state,
                   last_output_size, current_size, events, nonTailVars>>

\* A _trigger_callbacks without the try around the call: the exception of a
\* callback leaves the for loop.
CallbackErrorEscapes(raised) == raised

\* _trigger_callbacks: `try: callback(pid, event_type, data)` with
\* `except Exception` that logs: nothing a callback raises leaves the loop.
CallbackErrorLeaves(raised) == FALSE

\* Where the monitor thread goes after _trigger_callbacks: the `break` after
\* _mark_completed, or the sleep of the tick.
AfterTrigger(type) == IF type = "completed" THEN "done" ELSE "sleep"

\* _trigger_callbacks: `for callback in callbacks:` one call, which can raise.
Trig_Call ==
    /\ tail_pc = "call"
    /\ IF pending.subs = <<>>
       THEN /\ tail_pc' = AfterTrigger(pending.type)
            /\ pending' = NoEvent
            /\ UNCHANGED <<events, tail_state>>
       ELSE \E raised \in BOOLEAN :
            /\ events' = Append(events, [type |-> pending.type, from |-> pending.from,
                                         to |-> pending.to, sub |-> Head(pending.subs),
                                         raised |-> raised, detached |-> ~tail_entry])
            /\ IF CallbackErrorLeaves(raised)
               THEN /\ tail_state' = "failed"
                    /\ tail_pc' = "done"
                    /\ pending' = NoEvent
               ELSE /\ pending' = [pending EXCEPT !.subs = Tail(@)]
                    /\ UNCHANGED <<tail_pc, tail_state>>
    /\ UNCHANGED <<output_file, tail_alive, tail_entry, tail_callbacks,
                   last_output_size, current_size, nonTailVars>>

\* time.sleep(self.check_interval)
Tail_Sleep ==
    /\ tail_pc = "sleep"
    /\ tail_pc' = "top"
    /\ UNCHANGED <<output_file, tail_alive, tail_entry, tail_callbacks, tail_state,
                   last_output_size, current_size, pending, events, nonTailVars>>

TailLoop ==
    \/ Tail_Top \/ Tail_Alive \/ Tail_Mark \/ Tail_Stat \/ Tail_Read
    \/ Trig_Fetch \/ Trig_Call \/ Tail_Sleep

NextTail == Tail_Write \/ Tail_Exit \/ Tail_Detach \/ TailLoop

\* --------------------------- TerminalSessionManager: the lock of the table
\* self._lock = threading.Lock() guards self.active_sessions. One thread
\* calls list_active_sessions; another calls spawn_terminal, is_running and
\* terminate_session.
LockSessions == 1..MaxSessions

LockThreads == {"lister", "user"}

NoOp == [op |-> "none", sid |-> 0, section |-> 0]

InitLock ==
    /\ lk_holder = "none"
    /\ lk_table = {}
    /\ lk_pc = [t \in LockThreads |-> "idle"]
    /\ lk_todo = {}
    /\ lk_op = NoOp
    /\ lk_returned = 0

\* threading.Lock: acquire succeeds only on a lock nobody holds, the holder
\* itself included.
CanAcquire(holder, thread) == holder = "none"

\* list_active_sessions is called.
List_Call ==
    /\ lk_pc["lister"] = "idle"
    /\ lk_returned < MaxLists
    /\ lk_pc' = [lk_pc EXCEPT !["lister"] = "with_outer"]
    /\ UNCHANGED <<lk_holder, lk_table, lk_todo, lk_op, lk_returned, nonLockVars>>

\* spawn_terminal, is_running or terminate_session is called by the other
\* thread; a spawn makes a session id that is not in the table.
User_Call(op, s) ==
    /\ lk_pc["user"] = "idle"
    /\ op = "spawn" => s \notin lk_table
    /\ lk_op' = [op |-> op, sid |-> s, section |-> 1]
    /\ lk_pc' = [lk_pc EXCEPT !["user"] = "with"]
    /\ UNCHANGED <<lk_holder, lk_table, lk_todo, lk_returned, nonLockVars>>

\* `with self._lock:` a thread that waits at one takes the lock: in
\* list_active_sessions (the comprehension starts over the items of the
\* table), in the is_running that the comprehension calls, or in a call of
\* the other thread.
Lock_Acquire(t) ==
    /\ lk_pc[t] \in {"with_outer", "with_inner", "with"}
    /\ CanAcquire(lk_holder, t)
    /\ lk_holder' = t
    /\ lk_pc' = [lk_pc EXCEPT ![t] = IF @ = "with_outer" THEN "iterate"
                                     ELSE IF @ = "with_inner" THEN "in_inner"
                                     ELSE "in_with"]
    /\ lk_todo' = IF lk_pc[t] = "with_outer" THEN lk_table ELSE lk_todo
    /\ UNCHANGED <<lk_table, lk_op, lk_returned, nonLockVars>>

\* The comprehension of list_active_sessions, inside `with self._lock:`: the
\* next item calls self.is_running(sid), which begins with `with self._lock:`;
\* with no item left the list is returned and the lock released.
List_Iterate ==
    /\ lk_pc["lister"] = "iterate"
    /\ IF lk_todo = {}
       THEN /\ lk_holder' = "none"
            /\ lk_returned' = lk_returned + 1
            /\ lk_pc' = [lk_pc EXCEPT !["lister"] = "idle"]
       ELSE /\ lk_pc' = [lk_pc EXCEPT !["lister"] = "with_inner"]
            /\ UNCHANGED <<lk_holder, lk_returned>>
    /\ UNCHANGED <<lk_table, lk_todo, lk_op, nonLockVars>>

\* The end of a `with self._lock:` block other than that of
\* list_active_sessions: the lock is released. spawn_terminal has stored the
\* session; the second block of terminate_session (its finally) has deleted
\* it; is_running and the first block of terminate_session have looked it up.
Lock_Release(t) ==
    /\ lk_pc[t] \in {"in_inner", "in_with"}
    /\ lk_holder' = "none"
    /\ IF lk_pc[t] = "in_inner"
       THEN /\ \E s \in lk_todo : lk_todo' = lk_todo \ {s}
            /\ lk_pc' = [lk_pc EXCEPT ![t] = "iterate"]
            /\ UNCHANGED <<lk_table, lk_op>>
       ELSE /\ lk_table' = IF lk_op.op = "spawn" THEN lk_table \cup {lk_op.sid}
                           ELSE IF lk_op.op = "terminate" /\ lk_op.section = 2
                           THEN lk_table \ {lk_op.sid}
                           ELSE lk_table
            /\ IF lk_op.op = "terminate" /\ lk_op.section = 1 /\ lk_op.sid \in lk_table
               THEN /\ lk_op' = [lk_op EXCEPT !.section = 2]
                    /\ lk_pc' = [lk_pc EXCEPT ![t] = "with"]
               ELSE /\ lk_op' = NoOp
                    /\ lk_pc' = [lk_pc EXCEPT ![t] = "idle"]
            /\ UNCHANGED lk_todo
    /\ UNCHANGED <<lk_returned, nonLockVars>>

ListerStep == List_Call \/ Lock_Acquire("lister") \/ List_Iterate \/ Lock_Release("lister")

UserStep ==
    \/ \E op \in {"spawn", "is_running", "terminate"} : \E s \in LockSessions : User_Call(op, s)
    \/ Lock_Acquire("user")
    \/ Lock_Release("user")

NextLock ==
    \/ List_Call
    \/ List_Iterate
    \/ \E op \in {"spawn", "is_running", "terminate"} : \E s \in LockSessions : User_Call(op, s)
    \/ \E t \in LockThreads : Lock_Acquire(t)
    \/ \E t \in LockThreads : Lock_Release(t)

\* ------------------------------------- the cache file, written and read
\* _save_session and _load_cached_session of AuthTokenManager objects in
\* different threads or processes, which share nothing but the file.
\* A file that exists and holds no text a document can be parsed from: empty,
\* or a prefix of the document being written.
Unparsed == [exists |-> TRUE, access_token |-> None, expires_at |-> None]

\* The session document that set_session_from_token caches for a token.
Document(tok) == [exists |-> TRUE, access_token |-> tok, expires_at |-> tok]

NotSaving == [pc |-> "idle", session |-> NoFile, before |-> NoFile]
NotLoaded == [during |-> "none", whole |-> TRUE, result |-> "none"]

InitCache ==
    /\ saving = NotSaving
    /\ lastLoad = NotLoaded

\* _save_session, `with open(self.TOKEN_CACHE_FILE, 'w') as f:` the file is
\* created or truncated in place.
Save_Open ==
    /\ saving.pc = "idle"
    /\ saving' = [pc |-> "opened", session |-> Document(now + TokenLifetime),
                  before |-> cacheFile]
    /\ cacheFile' = Unparsed
    /\ UNCHANGED <<lastLoad, nonCacheVars>>

\* _save_session, json.dump(session, f, indent=2) and the end of the `with`
\* block: the text is written and the file closed.
Save_Close ==
    /\ saving.pc = "opened"
    /\ cacheFile' = saving.session
    /\ saving' = NotSaving
    /\ UNCHANGED <<lastLoad, nonCacheVars>>

\* What _load_cached_session makes of the file: json.load and fromisoformat
\* raise on a text that does not parse or lacks expires_at (caught: None).
LoadResult(file) ==
    IF ~file.exists THEN "absent"
    ELSE IF file.access_token = None \/ file.expires_at = None THEN "unreadable"
    ELSE IF file.expires_at > now THEN "valid"
    ELSE "expired"

\* _load_cached_session by a reader that shares only the file with the writer.
Load_Read ==
    /\ lastLoad' = [during |-> IF saving.pc = "idle" THEN "no_save"
                               ELSE IF LoadResult(saving.before) \in {"valid", "expired"}
                               THEN "replace" ELSE "create",
                    whole |-> saving.pc = "opened" =>
                                  cacheFile \in {saving.before, saving.session},
                    result |-> LoadResult(cacheFile)]
    /\ UNCHANGED <<saving, cacheFile, nonCacheVars>>

\* A minute passes.
Cache_Tick ==
    /\ now < MaxClock
    /\ now' = now + 1
    /\ UNCHANGED <<cached_token, token_expiry, cacheFile, sbSession, idpUp, refreshUp,
                   lastReturn, quiet, cacheVars, nonAuthVars>>

NextCache == Save_Open \/ Save_Close \/ Load_Read \/ Cache_Tick

\* ------------------------------ TaskExecutor started and stopped repeatedly
\* The object is used through start() and stop() alone, by a caller that
\* calls them in any order; Caller is the agent whose object it is. Of a
\* thread only its loop matters here: "test" is the `while self.running`
\* of _polling_loop or _execution_loop, "body" the rest of the loop (the
\* requests and the sleep of the poller; the get with its timeout and
\* _execute_task of a worker).
Caller == "a1"
ThreadSlots == 1..MaxThreads
NoThread == [loop |-> "none", pc |-> "none"]

InitLifecycle ==
    /\ threads = [i \in ThreadSlots |-> NoThread]
    /\ startResult = "none"

FreeSlots == {i \in ThreadSlots : threads[i] = NoThread}

\* The n lowest free slots.
Lowest(n) ==
    CHOOSE S \in SUBSET FreeSlots :
        /\ Cardinality(S) = n
        /\ \A i \in S : \A j \in FreeSlots \ S : i < j

\* `if self.running: logger.warning(...); return`
StartReturnsEarly(is_running) == is_running

\* TaskExecutor.start: nothing when already running; RuntimeError when a
\* probe fails; else running = True, one polling thread and
\* max_concurrent_tasks execution threads are created and started.
Life_Start ==
    LET n == 1 + max_concurrent_tasks[Caller] IN
    IF StartReturnsEarly(running[Caller])
    THEN /\ startResult' = "ignored"
         /\ startResult # "ignored"
         /\ UNCHANGED <<threads, running>>
    ELSE \/ /\ startResult' = "failed"
            /\ startResult # "failed"
            /\ UNCHANGED <<threads, running>>
         \/ /\ Cardinality(FreeSlots) >= n
            /\ LET S == Lowest(n)
                   first == CHOOSE i \in S : \A j \in S : i <= j IN
               threads' = [i \in ThreadSlots |->
                              IF i = first THEN [loop |-> "poller", pc |-> "test"]
                              ELSE IF i \in S THEN [loop |-> "worker", pc |-> "test"]
                              ELSE threads[i]]
            /\ running' = [running EXCEPT ![Caller] = TRUE]
            /\ startResult' = "launched"

Life_StartCall == Life_Start /\ UNCHANGED <<max_concurrent_tasks, nonLifeVars>>

\* TaskExecutor.stop: self.running = False; time.sleep(1). No thread is
\* joined: stop() returns whatever the threads are doing.
Life_Stop ==
    /\ running[Caller]
    /\ running' = [running EXCEPT ![Caller] = FALSE]
    /\ startResult' = "none"
    /\ UNCHANGED <<threads, max_concurrent_tasks, nonLifeVars>>

\* `while self.running:` of a thread: into the body, or the thread ends.
Life_Test(i) ==
    /\ threads[i].pc = "test"
    /\ threads' = [threads EXCEPT ![i] =
                     IF running[Caller] THEN [@ EXCEPT !.pc = "body"] ELSE NoThread]
    /\ UNCHANGED <<startResult, running, max_concurrent_tasks, nonLifeVars>>

\* The body of the loop is over (a tick of the poller and its sleep; a get
\* that timed out or a task executed), back to the test.
Life_Body(i) ==
    /\ threads[i].pc = "body"
    /\ threads' = [threads EXCEPT ![i].pc = "test"]
    /\ UNCHANGED <<startResult, running, max_concurrent_tasks, nonLifeVars>>

NextLifecycle ==
    \/ Life_StartCall
    \/ Life_Stop
    \/ \E i \in ThreadSlots : Life_Test(i) \/ Life_Body(i)

\* ------------------------------------------------------------ specification
MainStep(a) == Start(a) \/ Stop(a) \/ Exit(a)

PollStep(a) ==
    \/ Poll_Loop(a) \/ Poll_Fetch(a) \/ Poll_Iter(a) \/ Poll_Accept(a)
    \/ Poll_Sleep(a)

WorkStep(a, w) ==
    \/ Work_Check(a, w) \/ Work_Get(a, w) \/ Exec_Start(a, w)
    \/ Stat_Read(a, w) \/ Stat_Write(a, w) \/ Exec_Status(a, w)
    \/ Exec_Backend(a, w) \/ Exec_Complete(a, w) \/ Exec_Fail(a, w)
    \/ Exec_ExcFail(a, w) \/ Exec_Finally(a, w)

NextExecutor ==
    \/ SubmitTask
    \/ \E a \in Agents : MainStep(a) \/ PollStep(a)
    \/ \E a \in Agents : \E w \in Workers : WorkStep(a, w)

\* One agent with one worker.
Init ==
    InitExecutor({"a1"}, {1}, NumTasks, TRUE) /\ InitAuth /\ InitMonitor /\ InitTerminal({TRUE})
    /\ InitClient /\ InitArtifacts(FALSE) /\ InitLifecycle /\ InitCache /\ InitTail /\ InitLock

Next == NextExecutor

Spec == Init /\ [][Next]_vars

\* Two agents, one worker each, polling the same orchestrator.
InitRace ==
    InitExecutor({"a1", "a2"}, {1}, RaceTasks, FALSE) /\ InitAuth /\ InitMonitor /\ InitTerminal({TRUE})
    /\ InitClient /\ InitArtifacts(FALSE) /\ InitLifecycle /\ InitCache /\ InitTail /\ InitLock

SpecRace == InitRace /\ [][Next]_vars

\* One agent with two workers; every request to the orchestrator is answered.
InitPool ==
    InitExecutor({"a1"}, {MaxWorkers}, NumTasks, FALSE) /\ InitAuth /\ InitMonitor /\ InitTerminal({TRUE})
    /\ InitClient /\ InitArtifacts(FALSE) /\ InitLifecycle /\ InitCache /\ InitTail /\ InitLock

SpecPool == InitPool /\ [][Next]_vars

\* One TaskExecutor, with one or two workers, started and stopped in any
\* order by its caller.
InitLifecycleOnly ==
    InitExecutor({}, 1..MaxWorkers, 0, FALSE) /\ InitAuth /\ InitMonitor /\ InitTerminal({TRUE})
    /\ InitClient /\ InitArtifacts(FALSE) /\ InitLifecycle /\ InitCache /\ InitTail /\ InitLock

SpecLifecycle == InitLifecycleOnly /\ [][NextLifecycle]_vars

\* The authentication layer alone: no agent is started.
InitAuthOnly ==
    InitExecutor({}, {1}, 0, FALSE) /\ InitAuth /\ InitMonitor /\ InitTerminal({TRUE})
    /\ InitClient /\ InitArtifacts(FALSE) /\ InitLifecycle /\ InitCache /\ InitTail /\ InitLock

SpecAuth == InitAuthOnly /\ [][NextAuth]_vars

\* A writer and a reader of the cache file, which is absent at first.
SpecCache == InitAuthOnly /\ [][NextCache]_vars

\* The process monitor alone.
SpecMonitor == InitAuthOnly /\ [][NextMonitor]_vars

\* One monitor loop following the output log of its process.
SpecTail == InitAuthOnly /\ [][NextTail]_vars

\* The same, every thread getting its turn.
FairTail == SpecTail /\ WF_vars(TailLoop)

\* The process monitor called for two PIDs.
SpecSignals == InitAuthOnly /\ [][NextSignals]_vars

\* The process-exec back-end and its session manager, with auto-cleanup on
\* or off.
InitTerminalOnly ==
    InitExecutor({}, {1}, 0, FALSE) /\ InitAuth /\ InitMonitor /\ InitTerminal(BOOLEAN)
    /\ InitClient /\ InitArtifacts(FALSE) /\ InitLifecycle /\ InitCache /\ InitTail /\ InitLock

SpecTerminal == InitTerminalOnly /\ [][NextTerminal]_vars

\* The lock of the session manager, taken by two threads.
SpecLock == InitAuthOnly /\ [][NextLock]_vars

\* Every thread goes on when it can, and a thread that waits for the lock
\* gets it if the lock is free again and again.
FairLock ==
    /\ SpecLock
    /\ WF_vars(ListerStep) /\ WF_vars(UserStep)
    /\ \A t \in LockThreads : SF_vars(Lock_Acquire(t))

\* The orchestrator client alone.
SpecClient == InitAuthOnly /\ [][NextClient]_vars

\* collect_artifacts over every content of output/ within the bounds.
InitArtifactsOnly ==
    /\ InitExecutor({}, {1}, 0, FALSE) /\ InitAuth /\ InitMonitor /\ InitTerminal({TRUE})
    /\ InitClient /\ InitArtifacts(TRUE) /\ InitLifecycle /\ InitCache /\ InitTail /\ InitLock

SpecArtifacts == InitArtifactsOnly /\ [][NextArtifacts]_vars

\* =================================================================== claims
\* Terminal reporting calls (complete_task, fail_task) agent a issued for t.
TerminalCalls(a, t) == calls[a][t].complete + calls[a][t].fail

\* C1: when the agent has exited cleanly (stop() returned, exit code 0),
\* every task id its accept succeeded for has had a terminal report
\* (complete or fail) issued, also the tasks that were queued or in flight
\* when stop() was called.
C1_AcceptedReportedBeforeExit ==
    \A a \in Agents :
        mainpc[a] = "exited" =>
            \A t \in accepted[a] : TerminalCalls(a, t) >= 1

\* C2: for each task the agent issues at most one terminal report: complete
\* and fail are never both called and neither is called twice.
C2_AtMostOneTerminalReport ==
    \A a \in Agents : \A t \in TaskIds :
        /\ calls[a][t].complete <= 1
        /\ calls[a][t].fail <= 1
        /\ ~(calls[a][t].complete >= 1 /\ calls[a][t].fail >= 1)

\* C3: a step that issues the in_progress report for a task happens only
\* after accept succeeded for it, a step that issues a terminal report only
\* after the in_progress report was issued; so no status, complete or fail
\* call is ever issued for a task whose accept did not succeed.
C3_AcceptThenProgressThenTerminal ==
    [][\A a \in Agents : \A t \in TaskIds :
          /\ calls'[a][t].status > calls[a][t].status =>
                /\ t \in accepted[a]
                /\ calls[a][t].status = 0
                /\ TerminalCalls(a, t) = 0
          /\ TerminalCalls(a, t)' > TerminalCalls(a, t) =>
                /\ t \in accepted[a]
                /\ calls[a][t].status > 0
          /\ (t \notin accepted'[a]) =>
                calls'[a][t] = NoCalls]_vars

\* C3 witness: a task was accepted, reported in_progress and reported terminal.
C3_Witness ==
    \E a \in Agents : \E t \in TaskIds :
        /\ t \in accepted[a]
        /\ calls[a][t].status = 1
        /\ TerminalCalls(a, t) >= 1

\* C4: active + queued never exceeds max_concurrent_tasks.
C4_ActivePlusQueuedBounded ==
    \A a \in Agents :
        Cardinality(active_tasks[a]) + Len(task_queue[a]) <= max_concurrent_tasks[a]

\* C5: completed + failed <= total_tasks always, with equality once the
\* queue is empty and no worker holds a task.
C5_StatsAddUp ==
    \A a \in Agents :
        /\ stats[a].completed + stats[a].failed <= stats[a].total_tasks
        /\ (task_queue[a] = <<>> /\ Held(a) = {}) =>
              stats[a].completed + stats[a].failed = stats[a].total_tasks

\* C6: get_auth_headers never returns a token at a time later than the
\* token's expires_at minus 5 minutes.
C6_NoTokenInsideExpiryMargin ==
    lastReturn.token # None =>
        ~(lastReturn.at > lastReturn.token - ExpiryMargin)

\* C7: the state of a ProcessMetrics object never leaves a terminal state
\* and never goes back from running to starting.
C7_TerminalStateAbsorbing ==
    [][\A p \in Pids : \A k \in Slots :
          /\ metrics[p][k].state \in TerminalStates =>
                metrics'[p][k].state = metrics[p][k].state
          /\ metrics[p][k].state = "running" =>
                metrics'[p][k].state # "starting"]_vars

\* C8: for the metrics of a monitored PID, end_time is set exactly when the
\* state is terminal.
C8_EndTimeIffTerminal ==
    \A p \in Pids :
        monitored[p] # NoObj =>
            (metrics[p][monitored[p]].end_time
                <=> metrics[p][monitored[p]].state \in TerminalStates)

\* C9: accept succeeds for at most one agent per task, the server records
\* that agent, and an agent whose accept did not succeed neither enqueues the
\* task nor holds it nor issues any report for it.
C9_OnlyTheWinnerExecutes ==
    \A t \in TaskIds :
        /\ Cardinality({a \in Agents : t \in accepted[a]}) <= 1
        /\ \A a \in Agents :
            t \notin accepted[a] =>
                /\ calls[a][t] = NoCalls
                /\ t \notin Held(a)
                /\ \A i \in 1..Len(task_queue[a]) : task_queue[a][i] # t
        /\ \A a \in Agents : t \in accepted[a] => taskAgent[t] = a

\* C9 witness: both agents had the same pending descriptor in the list of
\* their tick, one of them won the lease and has reported on the task.
C9_Witness ==
    \E t \in TaskIds : \E a, b \in Agents :
        /\ a # b
        /\ t \in accepted[a]
        /\ TerminalCalls(a, t) >= 1
        /\ polllist[b] # <<>> /\ Head(polllist[b]) = t
        /\ pollpc[b] = "accept"

\* C10: when the agent has exited, every task that was in flight when stop()
\* set running=False has had its terminal report issued.
C10_InflightReportedBeforeExit ==
    \A a \in Agents :
        mainpc[a] = "exited" =>
            \A t \in inflightAtStop[a] : TerminalCalls(a, t) >= 1

\* C11: a task that was on the queue when stop() set running=False is
\* never taken by a worker afterwards and no in_progress, complete or fail
\* call is ever issued for it.
C11_QueuedAtStopDropped ==
    \A a \in Agents : \A t \in queuedAtStop[a] :
        /\ t \notin Held(a)
        /\ calls[a][t] = NoCalls

\* Worker threads and poller threads start() has launched for agent a.
LaunchedWorkers(a) == {w \in Workers : wpc[a][w] # "off"}
LaunchedPollers(a) == IF pollpc[a] = "off" THEN 0 ELSE 1

\* C12: once start() has run, if either probe failed start() has failed,
\* running is false and no poller or worker exists; if both succeeded there
\* is one poller and there are max_concurrent_tasks workers.
C12_StartLaunchesIffProbesPass ==
    \A a \in Agents :
        /\ (probes[a].zmemory = "failed" \/ probes[a].claude = "failed") =>
              /\ mainpc[a] = "failed"
              /\ ~running[a]
              /\ LaunchedWorkers(a) = {}
              /\ LaunchedPollers(a) = 0
        /\ (probes[a].zmemory = "ok" /\ probes[a].claude = "ok") =>
              /\ mainpc[a] \in {"running", "grace", "exited"}
              /\ LaunchedPollers(a) = 1
              /\ Cardinality(LaunchedWorkers(a)) = max_concurrent_tasks[a]
        /\ probes[a] = NoProbes =>
              /\ LaunchedWorkers(a) = {}
              /\ LaunchedPollers(a) = 0

\* C12 witness: both probes succeeded and the worker of the started agent is
\* executing a task.
C12_Witness ==
    \E a \in Agents :
        /\ probes[a] = [zmemory |-> "ok", claude |-> "ok"]
        /\ running[a]
        /\ \E w \in Workers : wpc[a][w] = "backend"

\* Positions of a worker thread that is alive: it is in its loop or has left
\* it through the loop test.
WorkerPcs ==
    {"off", "check", "get", "start", "status", "backend", "complete", "fail",
     "exc_fail", "finally", "exit"} \cup ReadPcs \cup WritePcs

\* C13: whatever the back-end or a reporting call raised while a worker
\* executed a task, fail_task has been called for the task when the worker
\* leaves it; the worker then goes back to its loop test (unless the process
\* ends), and a worker only ever leaves its loop when running is false.
C13_WorkerSurvivesAndReportsFail ==
    /\ [](\A a \in Agents : \A w \in Workers :
            /\ wpc[a][w] \in WorkerPcs
            /\ (wpc[a][w] = "finally" /\ wraised[a][w]) =>
                  calls[a][wtask[a][w]].fail >= 1
            /\ wpc[a][w] = "exit" => ~running[a])
    /\ [][\A a \in Agents : \A w \in Workers :
            (wpc[a][w] = "finally" /\ wpc'[a][w] # "finally"
                                   /\ mainpc'[a] # "exited") =>
                wpc'[a][w] = "check"]_vars

\* C13 witness: the fail_task call of the exception handler itself raised, the
\* worker went on and has taken the next task.
C13_Witness ==
    \E a \in Agents : \E w \in Workers : \E t \in TaskIds :
        /\ t # wtask[a][w]
        /\ calls[a][t].fail >= 2
        /\ calls[a][t].complete = 0
        /\ wtask[a][w] # NoTask
        /\ wpc[a][w] = "finally"
        /\ wraised[a][w]
        /\ running[a]

\* C17: a task whose execution_mode names the process back-end is run by the
\* process back-end and one that names the API back-end by the API back-end,
\* whatever the default of the agent; a task without the key is run by the
\* back-end of the agent's default.
C17_BackendSelectedPerTask ==
    \A a \in Agents : \A w \in Workers :
        wmode[a][w].ran # "none" =>
            wmode[a][w].ran = SelectedMode(a, wmode[a][w].override)

\* C14: a terminate_session or cleanup_session call for a session that is not
\* in the table (already terminated or cleaned up) delivers no signal and
\* leaves the table and the processes as they are, so a second cleanup equals
\* one; a cleanup_session of a session that is running signals its process;
\* after either call the session is not in the table.
C14_TerminateAndCleanupIdempotent ==
    [][lastcall'.n > lastcall.n =>
         LET s == lastcall'.sid IN
         /\ s \notin active_sessions =>
               /\ active_sessions' = active_sessions
               /\ signals' = signals
               /\ palive' = palive
         /\ (lastcall'.op = "cleanup" /\ IsRunning(s)) =>
               signals'[s] = signals[s] + 1
         /\ s \notin active_sessions']_vars

\* C14 witness: the finally block has terminated and cleaned up the session,
\* whose process ignored the signal, and terminate_session is called again.
C14_Witness ==
    \E s \in SessionIds :
        /\ lastcall.op = "terminate" /\ lastcall.sid = s /\ lastcall.n >= 3
        /\ terminate_calls[s] >= 2
        /\ xreport[s] # "none"
        /\ signals[s] = 1
        /\ palive[s]

\* C15: when the monitoring loop ends because max_execution_time is over, the
\* back-end returns success False with the error "exceeded maximum execution
\* time", and the executor core reports fail, never complete.
C15_TimeoutIsReportedAsFail ==
    timedout =>
        /\ xresult[xrun].success = FALSE
        /\ xresult[xrun].error = TimeoutMessage
        /\ xreport[xrun] # "complete"
        /\ xpc = "idle" => xreport[xrun] = "fail"

\* C15 witness: a run timed out with its process still alive and has been
\* reported.
C15_Witness ==
    /\ timedout
    /\ xpc = "idle"
    /\ xreport[xrun] = "fail"
    /\ polls = MaxPolls
    /\ skind[xrun] = "process"

C19_FailuresBecomeFalseOrEmpty ==
    (creturn.op # "none" /\ (creturn.response < 200 \/ creturn.response >= 300)) =>
        creturn.value = FailureValue(creturn.op)

\* Positions of the artifact list that describe the file at a path.
ListedAt(p) == {i \in 1..Len(artifacts) : artifacts[i].path = p}

\* C20 as stated: an artifact has inline content if and only if its file is
\* smaller than 100 kB and has one of the four suffixes, and every regular
\* file is listed exactly once.
C20_InlineIffSmallText ==
    collected =>
        \A p \in Paths :
            /\ Cardinality(ListedAt(p)) = IF outputFiles[p].kind = "file" THEN 1 ELSE 0
            /\ \A i \in ListedAt(p) :
                  artifacts[i].content <=>
                      /\ outputFiles[p].size < InlineLimit
                      /\ outputFiles[p].suffix \in {".txt", ".json", ".md", ".log"}

\* C20 amended: an artifact has inline content if and only if its file is
\* smaller than 100 kB, has one of the four suffixes and decodes as text; a
\* .txt of 100,001 bytes has none; every regular file is listed exactly once,
\* with its size.
C20_InlineIffSmallDecodableText ==
    collected =>
        \A p \in Paths :
            /\ Cardinality(ListedAt(p)) = IF outputFiles[p].kind = "file" THEN 1 ELSE 0
            /\ \A i \in ListedAt(p) :
                  /\ artifacts[i].size = outputFiles[p].size
                  /\ artifacts[i].content <=>
                        /\ outputFiles[p].size < InlineLimit
                        /\ outputFiles[p].suffix \in {".txt", ".json", ".md", ".log"}
                        /\ outputFiles[p].decodable
                  /\ (outputFiles[p].suffix = ".txt" /\ outputFiles[p].size = InlineLimit + 1) =>
                        ~artifacts[i].content

\* C20 witness: a decodable .txt of 100,001 bytes is listed without content
\* next to a .log of 99,999 bytes listed with it.
C20_Witness ==
    /\ collected
    /\ \E i, j \in 1..Len(artifacts) :
        /\ artifacts[i].type = ".txt" /\ artifacts[i].size = InlineLimit + 1
        /\ outputFiles[artifacts[i].path].decodable
        /\ ~artifacts[i].content
        /\ artifacts[j].type = ".log" /\ artifacts[j].size = InlineLimit - 1
        /\ artifacts[j].content

\* C18: a get_auth_headers that follows a get_auth_headers, with no login,
\* logout, restart, tick of the clock or change of the identity provider in
\* between, returns the token the first returned (or none, as the first).
C18_RepeatedHeadersAgree ==
    [][(quiet.calls >= 1 /\ quiet'.calls >= 1) =>
          lastReturn'.token = lastReturn.token]_vars

\* C18 witness: two calls in a row, the first of which filled the memory
\* from the cache file or the client; both returned the token now in memory.
C18_Witness ==
    /\ quiet.calls = 2
    /\ quiet.changed
    /\ lastReturn.token # None
    /\ cached_token = lastReturn.token

\* Tasks agent a is executing: the in_progress report was issued for them
\* and no terminal report yet.
Executing(a) ==
    {t \in TaskIds : calls[a][t].status >= 1 /\ TerminalCalls(a, t) = 0}

\* C21: the number of tasks an agent is executing (in_progress reported, no
\* terminal report yet) never exceeds max_concurrent_tasks; with
\* max_concurrent_tasks = 1 the in_progress report of a task is issued only
\* when no other task is between its in_progress and its terminal report.
C21_ExecutingBounded ==
    \A a \in Agents :
        Cardinality(Executing(a)) <= max_concurrent_tasks[a]

\* C21 witness: one task has had its terminal report and another is being
\* executed now, by the one worker of the agent.
C21_Witness ==
    \E a \in Agents : \E t, u \in TaskIds :
        /\ t # u
        /\ max_concurrent_tasks[a] = 1
        /\ calls[a][t].status = 1 /\ TerminalCalls(a, t) >= 1
        /\ Executing(a) = {u}
        /\ \E w \in Workers : wtask[a][w] = u /\ wpc[a][w] = "backend"

\* C22: within a tick the poller goes on to call accept for a descriptor
\* only if active + queued < max_concurrent_tasks at the moment it tests
\* its capacity; with active + queued >= max_concurrent_tasks it accepts
\* and enqueues nothing more in that tick.
C22_AcceptOnlyBelowCapacity ==
    [][\A a \in Agents :
          (pollpc[a] = "iter" /\ pollpc'[a] = "accept") =>
              Cardinality(active_tasks[a]) + Len(task_queue[a])
                  < max_concurrent_tasks[a]]_vars

\* C23: once stop() has set running to False the poller starts no further
\* call: it does not go on to accept another descriptor of the tick it was
\* in and starts no new fetch of pending tasks. (A request the poller had
\* already decided on when stop() ran is not held against it here.)
C23_PollerStopsAtOnce ==
    [][\A a \in Agents :
          (mainpc[a] = "grace" /\ ~running[a]) =>
              /\ ~(pollpc[a] = "iter" /\ pollpc'[a] = "accept")
              /\ ~(pollpc[a] = "loop" /\ pollpc'[a] = "fetch")]_vars

\* C25: once no worker of the agent holds a task, every task the agent
\* counted as completed is recorded as completed at the orchestrator: the
\* completed counter does not exceed the number of tasks of this agent the
\* orchestrator has as completed, also when a reporting request failed.
C25_CountedCompletedIsRecorded ==
    \A a \in Agents :
        Held(a) = {} =>
            stats[a].completed <=
                Cardinality({t \in TaskIds :
                                taskAgent[t] = a /\ tasks[t] = "completed"})

\* The number of calls of one kind ("status", "complete", "fail") agent a
\* issued, over the tasks 1..t.
RECURSIVE CallsIssued(_, _, _)
CallsIssued(a, kind, t) ==
    IF t = 0 THEN 0 ELSE calls[a][t][kind] + CallsIssued(a, kind, t - 1)

\* C24: with several workers, once the agent is quiescent (queue empty, no
\* worker holds a task) stats.completed is the number of complete reports
\* issued, stats.failed the number of fail reports issued and
\* stats.total_tasks the number of tasks that started execution.
C24_CountersExactWhenQuiescent ==
    \A a \in Agents :
        (task_queue[a] = <<>> /\ Held(a) = {}) =>
            /\ stats[a].completed = CallsIssued(a, "complete", NumTasks)
            /\ stats[a].failed = CallsIssued(a, "fail", NumTasks)
            /\ stats[a].total_tasks =
                  Cardinality({t \in TaskIds : calls[a][t].status >= 1})

\* The loops of one kind ("poller", "worker") that have not ended.
AliveLoops(kind) == {i \in ThreadSlots : threads[i].loop = kind}

\* C26: whatever the sequence of start() and stop() calls, while the
\* executor runs at most one poller loop and at most max_concurrent_tasks
\* worker loops are alive.
C26_OnePollerBoundedWorkers ==
    running[Caller] =>
        /\ Cardinality(AliveLoops("poller")) <= 1
        /\ Cardinality(AliveLoops("worker")) <= max_concurrent_tasks[Caller]

\* C27: a call of get_auth_headers that has just returned a token (a
\* non-empty Authorization header) has had the identity provider confirm
\* exactly that token during the call; on the in-memory path, the cache-file
\* path and the refresh path alike.
C27_ReturnedTokenWasProbed ==
    (quiet.calls >= 1 /\ lastReturn.token # None) =>
        lastReturn.validated = lastReturn.token

\* C27 witness: a call returned a token on the refresh path (the memory was
\* filled and the token written to a cache file without an expiry), and the
\* identity provider had confirmed that token.
C27_Witness ==
    /\ quiet.calls = 1
    /\ quiet.changed
    /\ lastReturn.token # None
    /\ lastReturn.validated = lastReturn.token
    /\ cacheFile.exists /\ cacheFile.access_token = lastReturn.token
    /\ cacheFile.expires_at = None

\* C28: a call of get_auth_headers that has just returned no token (empty
\* headers) has left no cache file behind, whatever made the paths fail: an
\* identity provider that cannot be reached, a token it rejects, a cache
\* file that is expired or cannot be used, a refresh that fails.
C28_NoTokenMeansNoCacheFile ==
    (quiet.calls >= 1 /\ lastReturn.token = None) => ~cacheFile.exists

\* C28 witness: there was a cache file, the call returned no token and the
\* file is gone.
C28_Witness ==
    /\ quiet.calls = 1
    /\ quiet.changed
    /\ lastReturn.token = None
    /\ ~cacheFile.exists
    /\ cached_token # None

\* C29: a _load_cached_session that runs while a _save_session replaces a
\* complete document reads either that old document or the new one, whole;
\* never a file without a document in it.
C29_ReaderSeesOldOrNew ==
    lastLoad.during = "replace" =>
        /\ lastLoad.whole
        /\ lastLoad.result # "unreadable"

\* C30: the subscriber of a PID is handed the 'completed' event at most
\* once, and once it has been handed it no monitor loop of that PID is still
\* running; also when attach_to_process was called twice for the PID or
\* handle_timeout / handle_kill ran before the process ended.
C30_CompletedOnceThenNoTick ==
    \A p \in Pids :
        /\ delivered[p] <= 1
        /\ delivered[p] >= 1 => \A k \in Slots : lpc[p][k] \in {"off", "done"}

\* C31: a step of handle_timeout / handle_kill for a PID leaves alone the
\* liveness of every process, the table of monitored PIDs, the session table
\* and every metrics record but the one it fetched, of which it changes the
\* state and the end_time; and a call for a PID that has no entry changes
\* nothing.
C31_SignalsOnlyTouchTheirRecord ==
    [][\A p \in Pids :
          /\ sigpc'[p] # sigpc[p] =>
                LET obj == IF sigpc[p] = "idle" THEN monitored[p] ELSE sigref[p] IN
                /\ procAlive' = procAlive
                /\ monitored' = monitored
                /\ active_sessions' = active_sessions
                /\ \A q \in Pids \ {p} : metrics'[q] = metrics[q]
                /\ \A k \in Slots \ {obj} : metrics'[p][k] = metrics[p][k]
          /\ (monitored[p] = NoObj /\ monitored'[p] = NoObj /\ sigpc[p] = "idle") =>
                /\ sigpc'[p] = "idle"
                /\ metrics'[p] = metrics[p]]_vars

\* C31 witness: handle_timeout or handle_kill has run to its end for one PID,
\* whose process is still alive, while the other PID is monitored and its
\* record is as attach_to_process made it.
C31_Witness ==
    /\ monitored["pid"] # NoObj
    /\ metrics["pid"][monitored["pid"]].state \in {"timeout", "killed"}
    /\ metrics["pid"][monitored["pid"]].end_time
    /\ sigpc["pid"] = "idle"
    /\ procAlive["pid"]
    /\ monitored["other"] # NoObj
    /\ metrics["other"][monitored["other"]] = NewMetrics

\* C32: while _trigger_callbacks goes through the subscribers of an event,
\* whatever a callback raises, the state of the PID stays as it was, the
\* next subscriber of the list is called next, and after the last one the
\* loop goes where it goes after every event: to the sleep of the tick (or,
\* after 'completed', to its end).
C32_CallbackErrorsAreSwallowed ==
    [][tail_pc = "call" =>
          /\ tail_state' = tail_state
          /\ \/ /\ tail_pc' = "call" /\ pending' = pending /\ events' = events
             \/ /\ pending.subs # <<>>
                /\ tail_pc' = "call"
                /\ pending' = [pending EXCEPT !.subs = Tail(@)]
                /\ Len(events') = Len(events) + 1
                /\ events'[Len(events')].sub = Head(pending.subs)
             \/ /\ pending.subs = <<>>
                /\ tail_pc' = AfterTrigger(pending.type)]_vars

\* C32 witness: the first subscriber raised on an output event, the second
\* was called for the same event, and a later tick delivered another output
\* event; the state of the PID is running.
C32_Witness ==
    /\ tail_state = "running"
    /\ \E i, j, k \in 1..Len(events) :
        /\ i < j /\ j < k
        /\ events[i].type = "output" /\ events[i].sub = "s1" /\ events[i].raised
        /\ events[j].type = "output" /\ events[j].sub = "s2"
        /\ events[j].from = events[i].from
        /\ events[k].type = "output" /\ events[k].from > events[i].from

\* The calls of subscriber s for output events, as positions in `events`.
OutputCalls(s) ==
    {i \in 1..Len(events) : events[i].type = "output" /\ events[i].sub = s}

\* The byte offset the output delivered to s before call i ends at.
DeliveredBefore(s, i) ==
    LET earlier == {j \in OutputCalls(s) : j < i} IN
    IF earlier = {} THEN 0
    ELSE events[CHOOSE j \in earlier : \A h \in earlier : h <= j].to

\* C33: the chunks of the output events a subscriber gets are consecutive
\* pieces of the file: each is non-empty and starts at the byte where the
\* one before it ended (the first at byte 0), so that no byte is delivered
\* twice and none is skipped.
C33_ChunksAreConsecutive ==
    \A s \in {"s1", "s2"} : \A i \in OutputCalls(s) :
        /\ events[i].to > events[i].from
        /\ events[i].from = DeliveredBefore(s, i)

\* C39: when a subscriber is handed the 'completed' event, the output events
\* it was handed before reach the end of the output log: every byte the
\* process wrote has been delivered.
C39_NoOutputLostAtExit ==
    \A i \in 1..Len(events) :
        events[i].type = "completed" =>
            DeliveredBefore(events[i].sub, i) = StatSize(output_file)

\* C40: once detach(pid) has returned, no subscriber that was registered for
\* the PID is called again: no call of a callback is made while the PID is
\* absent from the table.
C40_NoEventAfterDetach ==
    \A i \in 1..Len(events) : ~events[i].detached

\* C34: when the monitor loop has ended because the session stopped running
\* and the result is built from the exit code, success is true exactly when
\* the exit code is 0 or unknown; a result with success false is reported to
\* the orchestrator as a fail.
C34_SuccessIffZeroOrUnknown ==
    /\ [][(xpc = "collect" /\ xresult'[xrun].error \in {NullError, "stderr"}) =>
            (xresult'[xrun].success <=> GetExitCode(xsession) \in {0, None})]_vars
    /\ [](\A r \in SessionIds :
            xreport[r] # "none" => (xreport[r] = "fail" <=> ~xresult[r].success))

\* C34 witness: a run whose process ended with a non-zero exit code has been
\* reported as a fail.
C34_Witness ==
    \E r \in SessionIds :
        /\ xreport[r] = "fail" /\ xresult[r].error \in {NullError, "stderr"}
        /\ skind[r] = "process" /\ returncode[r] = 1

\* C38: every fail report carries an error string: the message handed to
\* fail_task is never the value None.
C38_FailReportHasErrorString ==
    \A r \in SessionIds : xreport[r] = "fail" => ErrorMsg(xresult[r]) # NullError

\* C35: for a session whose PID was not discovered, is_running is false on
\* the first call: the monitor loop makes no further turn and does not time
\* out, it ends at once and the run goes on to collect the results.
C35_UnknownPidEndsMonitorAtOnce ==
    /\ [](xsession # NoSession /\ skind[xsession] = "nopid" => polls = 0 /\ ~timedout)
    /\ [][(xpc = "monitor" /\ skind[xsession] = "nopid" /\ xpc' # xpc) =>
            xpc' = "collect"]_vars

\* C35 witness: the results of a session without PID are being collected
\* while its process is still alive.
C35_Witness ==
    /\ xpc = "collect"
    /\ skind[xsession] = "nopid"
    /\ palive[xsession]

\* C36: list_active_sessions always returns: a call that has begun is
\* followed by its return, whatever the table holds and whatever the other
\* thread calls.
C36_ListAlwaysReturns ==
    (lk_pc["lister"] = "with_outer") ~> (lk_pc["lister"] = "idle")

\* C37: when execute_task_in_terminal has returned from a run that spawned a
\* session whose process the manager can reach (a Popen handle or a pid),
\* that process is no longer alive.
C37_ProcessGoneWhenExecuteReturns ==
    (xpc = "report" /\ xsession # NoSession /\ skind[xsession] # "nopid") =>
        ~palive[xsession]

====
